---- MODULE Spec2Model ----
(***************************************************************************)
(* A model of asana-cli's core: the transport operations of api.Client     *)
(* (doRequest, doMultipartRequest, DownloadAttachment) and the summary     *)
(* aggregation of GetTaskSummary (src/internal/api/client.go).             *)
(*                                                                         *)
(* One behaviour is one invocation of one operation.  Strings that the     *)
(* code compares with < (dates) are sequences of byte codes; all other     *)
(* strings are TLA+ strings.  A response body is the JSON document the     *)
(* bytes spell; Raw renders the bytes of the small documents that can end  *)
(* up in an error text.                                                    *)
(***************************************************************************)
EXTENDS Integers, Sequences, FiniteSets, TLC

VARIABLES
    pc,     \* position of the running operation
    call,   \* the operation and its arguments
    now,    \* the wall clock, in days since Epoch
    wire,   \* the HTTP requests sent so far, in order
    resp,   \* the response the HTTP client handed back, or NoResp
    ret,    \* what the operation returned, or NoRet
    fs      \* the local filesystem: files, and the handles held open

vars == <<pc, call, now, wire, resp, ret, fs>>

(***************************************************************************)
(* Bounds of the model.                                                    *)
(***************************************************************************)
MaxTasks == 2       \* records in one decoded page
MaxDay == 2         \* days the clock can advance past Epoch
MaxErrors == 2      \* entries in an error envelope

(***************************************************************************)
(* Strings as byte sequences, and Go's string comparison.                  *)
(***************************************************************************)
Digit(n) == 48 + n
Dash == 45

RECURSIVE StrLess(_, _)
StrLess(a, b) ==
    IF b = <<>> THEN FALSE
    ELSE IF a = <<>> THEN TRUE
    ELSE IF Head(a) # Head(b) THEN Head(a) < Head(b)
    ELSE StrLess(Tail(a), Tail(b))

(***************************************************************************)
(* The calendar: time.Now(), Time.AddDate and Time.Format("2006-01-02").   *)
(***************************************************************************)
Epoch == [y |-> 2024, m |-> 2, d |-> 28]

IsLeap(y) == (y % 4 = 0 /\ y % 100 # 0) \/ y % 400 = 0

DaysIn(y, m) ==
    IF m = 2 THEN (IF IsLeap(y) THEN 29 ELSE 28)
    ELSE IF m \in {4, 6, 9, 11} THEN 30 ELSE 31

RECURSIVE Normalize(_, _, _)
Normalize(y, m, d) ==
    IF m > 12 THEN Normalize(y + 1, m - 12, d)
    ELSE IF d > DaysIn(y, m) THEN Normalize(y, m + 1, d - DaysIn(y, m))
    ELSE [y |-> y, m |-> m, d |-> d]

AddDate(t, years, months, days) == Normalize(t.y + years, t.m + months, t.d + days)

TimeNow(clock) == AddDate(Epoch, 0, 0, clock)

Format(t) ==
    << Digit(t.y \div 1000), Digit((t.y \div 100) % 10), Digit((t.y \div 10) % 10),
       Digit(t.y % 10), Dash, Digit(t.m \div 10), Digit(t.m % 10), Dash,
       Digit(t.d \div 10), Digit(t.d % 10) >>

(***************************************************************************)
(* Values: nil, errors, JSON documents.                                    *)
(***************************************************************************)
Nil == [kind |-> "nil"]
NoResp == [kind |-> "none"]
NoRet == [kind |-> "none"]

\* fmt.Errorf: an error is its text
Errorf(text) == [kind |-> "error", text |-> text]

\* the documents a body can spell
EmptyBody == [kind |-> "empty"]                              \* no bytes at all
TextBody == [kind |-> "text", text |-> "Bad Gateway"]        \* bytes that are not JSON
ObjectBody == [kind |-> "object"]                            \* {"data":{}}
BadTypeBody == [kind |-> "badtype"]                          \* {"errors":"oops"}
Envelope(msgs) == [kind |-> "envelope", errors |-> msgs]     \* {"errors":[{"message":..},..]}
TasksBody(data, next) == [kind |-> "tasks", data |-> data, next_page |-> next]
BytesBody(data) == [kind |-> "bytes", data |-> data]         \* a file's content

Messages == {"Not Found", "Forbidden"}

SeqsUpTo(S, n) == UNION {[1..k -> S] : k \in 0..n}

Envelopes == {Envelope(m) : m \in SeqsUpTo(Messages, MaxErrors)}

\* bodies a JSON endpoint may answer with
JSONBodies == {EmptyBody, TextBody, ObjectBody, BadTypeBody} \cup Envelopes

Statuses == {200, 204, 399, 400, 404, 500}

RECURSIVE RawEntries(_)
RawEntries(msgs) ==
    IF msgs = <<>> THEN ""
    ELSE "{\"message\":\"" \o Head(msgs) \o "\"}"
         \o (IF Tail(msgs) = <<>> THEN "" ELSE ",") \o RawEntries(Tail(msgs))

\* string(respBody): the bytes of a document
Raw(body) ==
    CASE body.kind = "empty" -> ""
      [] body.kind = "text" -> body.text
      [] body.kind = "object" -> "{\"data\":{}}"
      [] body.kind = "badtype" -> "{\"errors\":\"oops\"}"
      [] body.kind = "envelope" -> "{\"errors\":[" \o RawEntries(body.errors) \o "]}"

\* json.Unmarshal(respBody, &errResp) with errResp an ErrorResponse
UnmarshalErrorResponse(body) ==
    CASE body.kind \in {"empty", "text", "bytes"} -> [err |-> TRUE, Errors |-> <<>>]
      [] body.kind = "badtype" -> [err |-> TRUE, Errors |-> <<>>]
      [] body.kind = "envelope" -> [err |-> FALSE, Errors |-> body.errors]
      [] body.kind \in {"object", "tasks"} -> [err |-> FALSE, Errors |-> <<>>]

(***************************************************************************)
(* doRequest and doMultipartRequest: the parts without I/O.                *)
(***************************************************************************)
baseURL == "https://app.asana.com/api/1.0"

EmptyHeader == [n \in {} |-> ""]

\* the status test of the response
IsFailureMutGT(status) == status > 400
IsFailure(status) == status >= 400

\* the error built from a failed response
APIErrorMutLast(status, respBody) ==
    LET errResp == UnmarshalErrorResponse(respBody) IN
    IF ~errResp.err /\ Len(errResp.Errors) > 0
    THEN Errorf("API error (" \o ToString(status) \o "): "
                \o errResp.Errors[Len(errResp.Errors)])
    ELSE Errorf("API error (" \o ToString(status) \o "): " \o Raw(respBody))
APIErrorMutNoRaw(status, respBody) ==
    LET errResp == UnmarshalErrorResponse(respBody) IN
    IF ~errResp.err /\ Len(errResp.Errors) > 0
    THEN Errorf("API error (" \o ToString(status) \o "): " \o errResp.Errors[1])
    ELSE Errorf("API error (" \o ToString(status) \o "): ")
APIError(status, respBody) ==
    LET errResp == UnmarshalErrorResponse(respBody) IN
    IF ~errResp.err /\ Len(errResp.Errors) > 0
    THEN Errorf("API error (" \o ToString(status) \o "): " \o errResp.Errors[1])
    ELSE Errorf("API error (" \o ToString(status) \o "): " \o Raw(respBody))

\* the headers doRequest sets
doRequestHeaderMutAlways(token, body) ==
    ("Authorization" :> ("Bearer " \o token)) @@ ("Accept" :> "application/json")
    @@ ("Content-Type" :> "application/json")
doRequestHeader(token, body) ==
    ("Authorization" :> ("Bearer " \o token)) @@ ("Accept" :> "application/json")
    @@ (IF body # Nil THEN ("Content-Type" :> "application/json") ELSE EmptyHeader)

\* http.NewRequest fails on a URL that does not parse
\* an endpoint is a path and the query url.Values.Encode() appends to it
NoQuery == [n \in {} |-> ""]
Endpoint(path, query) == [path |-> path, query |-> query]
Endpoints == {Endpoint("/tasks/1", NoQuery), Endpoint("/tasks/%zz", NoQuery)}

\* reqURL := baseURL + endpoint
ReqURL(endpoint) == [base |-> baseURL, path |-> endpoint.path, query |-> endpoint.query]
ValidURL(u) == u.path # "/tasks/%zz"

doRequestBuild(c, method, endpoint, body) ==
    [method |-> method, url |-> ReqURL(endpoint),
     header |-> doRequestHeader(c.token, body), body |-> body]

\* what doRequest returns once the body is read
doRequestResult(status, respBody) ==
    IF IsFailure(status) THEN [body |-> Nil, err |-> APIError(status, respBody)]
    ELSE [body |-> respBody, err |-> Nil]

(***************************************************************************)
(* The local filesystem.                                                   *)
(***************************************************************************)
Paths == {"report.pdf"}

\* a path: does a file exist there, may it be opened or created, its bytes
FileStates ==
    { [exists |-> FALSE, ok |-> TRUE, data |-> <<>>],
      [exists |-> FALSE, ok |-> FALSE, data |-> <<>>],
      [exists |-> TRUE, ok |-> TRUE, data |-> <<>>],
      [exists |-> TRUE, ok |-> TRUE, data |-> <<7>>],
      [exists |-> TRUE, ok |-> FALSE, data |-> <<7>>] }

DefaultFS == [files |-> [p \in Paths |-> [exists |-> FALSE, ok |-> TRUE, data |-> <<>>]],
              open |-> {}]

FSStates == {[files |-> f, open |-> {}] : f \in [Paths -> FileStates]}

\* os.Open succeeds on a readable file that exists
CanOpenMutIgnored(f) == TRUE
CanOpen(f) == f.exists /\ f.ok
\* os.Create succeeds where the path may be written; it creates or truncates
CanCreate(f) == f.ok
Created(f) == [exists |-> TRUE, ok |-> TRUE, data |-> <<>>]

\* filepath.Base
Base(path) == path

(***************************************************************************)
(* The calls of the transport operations.                                  *)
(***************************************************************************)
Tokens == {"tokA", "tokB"}
Clients == {[token |-> t, workspace |-> "ws1"] : t \in Tokens}
Methods == {"GET", "POST", "PUT", "DELETE"}
JSONPayload == [kind |-> "json"]
DownloadURLs == {"", "https://files.example/report.pdf"}
FileBodies == {BytesBody(<<>>), BytesBody(<<1, 2>>)}

doRequestCalls ==
    {[op |-> "doRequest", c |-> c, method |-> m, endpoint |-> e, body |-> b] :
        c \in Clients, m \in Methods, e \in Endpoints, b \in {Nil, JSONPayload}}

doMultipartRequestCalls ==
    {[op |-> "doMultipartRequest", c |-> c, endpoint |-> e, filePath |-> p] :
        c \in Clients, e \in Endpoints, p \in Paths}

DownloadAttachmentCalls ==
    {[op |-> "DownloadAttachment", c |-> c, attachment |-> [DownloadURL |-> u],
      destPath |-> p] : c \in Clients, u \in DownloadURLs, p \in Paths}

Return(body, err) == [body |-> body, err |-> err]

(***************************************************************************)
(* doRequest.                                                              *)
(***************************************************************************)
doRequest_Send ==
    /\ pc = "ready" /\ call.op = "doRequest"
    /\ IF ~ValidURL(ReqURL(call.endpoint))
       THEN /\ ret' = Return(Nil, Errorf("creating request: invalid URL escape"))
            /\ pc' = "done"
            /\ UNCHANGED wire
       ELSE /\ wire' = Append(wire, doRequestBuild(call.c, call.method, call.endpoint,
                                                   call.body))
            /\ pc' = "awaiting"
            /\ UNCHANGED ret
    /\ UNCHANGED <<call, now, resp, fs>>

\* c.httpClient.Do returned an error
doRequest_FailMutRetry ==
    /\ pc = "awaiting" /\ call.op = "doRequest"
    /\ Len(wire) < 3
    /\ pc' = "ready"
    /\ UNCHANGED <<call, now, wire, resp, ret, fs>>
doRequest_Fail ==
    /\ pc = "awaiting" /\ call.op = "doRequest"
    /\ ret' = Return(Nil, Errorf("executing request: connection refused"))
    /\ pc' = "done"
    /\ UNCHANGED <<call, now, wire, resp, fs>>

\* c.httpClient.Do returned a response: read it, close it, judge the status
doRequest_Recv ==
    /\ pc = "awaiting" /\ call.op = "doRequest"
    /\ \E status \in Statuses, body \in JSONBodies, readOK \in BOOLEAN :
          /\ resp' = [status |-> status, body |-> body, readOK |-> readOK]
          /\ ret' = IF ~readOK
                    THEN Return(Nil, Errorf("reading response: unexpected EOF"))
                    ELSE doRequestResult(status, body)
    /\ pc' = "done"
    /\ UNCHANGED <<call, now, wire, fs>>

(***************************************************************************)
(* doMultipartRequest.                                                     *)
(***************************************************************************)
doMultipartRequestBuild(c, endpoint, filePath, data) ==
    [method |-> "POST", url |-> ReqURL(endpoint),
     header |-> ("Authorization" :> ("Bearer " \o c.token))
                @@ ("Accept" :> "application/json")
                @@ ("Content-Type" :> "multipart/form-data; boundary=b"),
     body |-> [kind |-> "multipart", field |-> "file", filename |-> Base(filePath),
               data |-> data]]

doMultipartRequest_Open ==
    /\ pc = "ready" /\ call.op = "doMultipartRequest"
    /\ IF ~CanOpen(fs.files[call.filePath])
       THEN /\ ret' = Return(Nil, Errorf("opening file: no such file or directory"))
            /\ pc' = "done"
            /\ UNCHANGED fs
       ELSE /\ fs' = [fs EXCEPT !.open = @ \cup {"file"}]
            /\ pc' = "opened"
            /\ UNCHANGED ret
    /\ UNCHANGED <<call, now, wire, resp>>

\* copy the file into the form, build the request, send it
doMultipartRequest_Send ==
    /\ pc = "opened" /\ call.op = "doMultipartRequest"
    /\ \E copyOK \in BOOLEAN :
          IF ~copyOK
          THEN /\ ret' = Return(Nil, Errorf("copying file data: read error"))
               /\ pc' = "done"
               /\ fs' = [fs EXCEPT !.open = @ \ {"file"}]
               /\ UNCHANGED wire
          ELSE IF ~ValidURL(ReqURL(call.endpoint))
          THEN /\ ret' = Return(Nil, Errorf("creating request: invalid URL escape"))
               /\ pc' = "done"
               /\ fs' = [fs EXCEPT !.open = @ \ {"file"}]
               /\ UNCHANGED wire
          ELSE /\ wire' = Append(wire, doMultipartRequestBuild(call.c, call.endpoint,
                                   call.filePath, fs.files[call.filePath].data))
               /\ pc' = "awaiting"
               /\ UNCHANGED <<ret, fs>>
    /\ UNCHANGED <<call, now, resp>>

doMultipartRequest_FailMutLeak ==
    /\ pc = "awaiting" /\ call.op = "doMultipartRequest"
    /\ ret' = Return(Nil, Errorf("executing request: connection refused"))
    /\ pc' = "done"
    /\ UNCHANGED <<call, now, wire, resp, fs>>
doMultipartRequest_Fail ==
    /\ pc = "awaiting" /\ call.op = "doMultipartRequest"
    /\ ret' = Return(Nil, Errorf("executing request: connection refused"))
    /\ pc' = "done"
    /\ fs' = [fs EXCEPT !.open = @ \ {"file"}]
    /\ UNCHANGED <<call, now, wire, resp>>

doMultipartRequest_Recv ==
    /\ pc = "awaiting" /\ call.op = "doMultipartRequest"
    /\ \E status \in Statuses, body \in JSONBodies, readOK \in BOOLEAN :
          /\ resp' = [status |-> status, body |-> body, readOK |-> readOK]
          /\ ret' = IF ~readOK
                    THEN Return(Nil, Errorf("reading response: unexpected EOF"))
                    ELSE IF status >= 400 THEN Return(Nil, APIError(status, body))
                    ELSE Return(body, Nil)
    /\ pc' = "done"
    /\ fs' = [fs EXCEPT !.open = @ \ {"file"}]
    /\ UNCHANGED <<call, now, wire>>

(***************************************************************************)
(* DownloadAttachment.                                                     *)
(***************************************************************************)
\* c.httpClient.Get(url): the request carries nothing of the client
DownloadRequestMutAuth(c, attachment) ==
    [method |-> "GET", url |-> [base |-> attachment.DownloadURL, path |-> "", query |-> NoQuery],
     header |-> doRequestHeader(c.token, Nil), body |-> Nil]
DownloadRequest(c, attachment) ==
    [method |-> "GET", url |-> [base |-> attachment.DownloadURL, path |-> "", query |-> NoQuery],
     header |-> EmptyHeader, body |-> Nil]

DownloadAttachment_Get ==
    /\ pc = "ready" /\ call.op = "DownloadAttachment"
    /\ IF call.attachment.DownloadURL = ""
       THEN /\ ret' = Return(Nil, Errorf("attachment has no download URL"))
            /\ pc' = "done"
            /\ UNCHANGED wire
       ELSE /\ wire' = Append(wire, DownloadRequest(call.c, call.attachment))
            /\ pc' = "awaiting"
            /\ UNCHANGED ret
    /\ UNCHANGED <<call, now, resp, fs>>

DownloadAttachment_Fail ==
    /\ pc = "awaiting" /\ call.op = "DownloadAttachment"
    /\ ret' = Return(Nil, Errorf("downloading file: connection refused"))
    /\ pc' = "done"
    /\ UNCHANGED <<call, now, wire, resp, fs>>

\* the response arrived: its body stays open until the function returns
DownloadAttachment_RecvMutCreateFirst ==
    /\ pc = "awaiting" /\ call.op = "DownloadAttachment"
    /\ \E status \in Statuses, body \in FileBodies :
          /\ resp' = [status |-> status, body |-> body, readOK |-> TRUE]
          /\ IF status >= 400
             THEN /\ ret' = Return(Nil, Errorf("download failed with status "
                                               \o ToString(status)))
                  /\ pc' = "done"
                  /\ fs' = [fs EXCEPT !.files[call.destPath] =
                                IF CanCreate(@) THEN Created(@) ELSE @]
             ELSE /\ fs' = [fs EXCEPT !.open = @ \cup {"resp.Body"}]
                  /\ pc' = "create"
                  /\ UNCHANGED ret
    /\ UNCHANGED <<call, now, wire>>
DownloadAttachment_Recv ==
    /\ pc = "awaiting" /\ call.op = "DownloadAttachment"
    /\ \E status \in Statuses, body \in FileBodies :
          /\ resp' = [status |-> status, body |-> body, readOK |-> TRUE]
          /\ IF status >= 400
             THEN /\ ret' = Return(Nil, Errorf("download failed with status "
                                               \o ToString(status)))
                  /\ pc' = "done"
                  /\ UNCHANGED fs
             ELSE /\ fs' = [fs EXCEPT !.open = @ \cup {"resp.Body"}]
                  /\ pc' = "create"
                  /\ UNCHANGED ret
    /\ UNCHANGED <<call, now, wire>>

DownloadAttachment_Create ==
    /\ pc = "create" /\ call.op = "DownloadAttachment"
    /\ IF ~CanCreate(fs.files[call.destPath])
       THEN /\ ret' = Return(Nil, Errorf("creating file: permission denied"))
            /\ pc' = "done"
            /\ fs' = [fs EXCEPT !.open = {}]
       ELSE /\ fs' = [fs EXCEPT !.files[call.destPath] = Created(@),
                                !.open = @ \cup {"out"}]
            /\ pc' = "copy"
            /\ UNCHANGED ret
    /\ UNCHANGED <<call, now, wire, resp>>

\* io.Copy writes a prefix of the body; all of it unless a read or write fails
DownloadAttachment_Copy ==
    /\ pc = "copy" /\ call.op = "DownloadAttachment"
    /\ \E n \in 0..Len(resp.body.data), failed \in BOOLEAN :
          /\ n < Len(resp.body.data) => failed
          /\ fs' = [fs EXCEPT !.files[call.destPath].data = SubSeq(resp.body.data, 1, n),
                              !.open = {}]
          /\ ret' = IF failed THEN Return(Nil, Errorf("writing file: short write"))
                    ELSE Return(Nil, Nil)
    /\ pc' = "done"
    /\ UNCHANGED <<call, now, wire, resp>>

(***************************************************************************)
(* The transport operations, one invocation each.                          *)
(***************************************************************************)
InitTransport ==
    /\ pc = "ready"
    /\ call \in doRequestCalls \cup doMultipartRequestCalls \cup DownloadAttachmentCalls
    /\ now = 0
    /\ wire = <<>>
    /\ resp = NoResp
    /\ ret = NoRet
    /\ fs \in (IF call.op = "doRequest" THEN {DefaultFS} ELSE FSStates)

NextTransport ==
    \/ doRequest_Send
    \/ doRequest_Fail
    \/ doRequest_Recv
    \/ doMultipartRequest_Open
    \/ doMultipartRequest_Send
    \/ doMultipartRequest_Fail
    \/ doMultipartRequest_Recv
    \/ DownloadAttachment_Get
    \/ DownloadAttachment_Fail
    \/ DownloadAttachment_Recv
    \/ DownloadAttachment_Create
    \/ DownloadAttachment_Copy

SpecTransport == InitTransport /\ [][NextTransport]_vars

(***************************************************************************)
(* GetTaskSummary.                                                         *)
(***************************************************************************)
\* the assignees of the workspace: two share a display name, one has none
Users == { [GID |-> "1", Name |-> "Ann"], [GID |-> "2", Name |-> "Ann"],
           [GID |-> "3", Name |-> ""] }

\* due_on as the service sends it: absent, or a date
DueDates == { <<>>, Format([y |-> 2024, m |-> 2, d |-> 29]),
              Format([y |-> 2023, m |-> 12, d |-> 31]) }

Tasks == [Completed : BOOLEAN, DueOn : DueDates, Assignee : Users \cup {Nil}]

TaskPages == {TasksBody(d, n) : d \in SeqsUpTo(Tasks, MaxTasks), n \in BOOLEAN}

\* json.Unmarshal(body, &resp) with resp a TasksResponse
UnmarshalTasksResponse(body) ==
    CASE body.kind = "tasks" -> [err |-> FALSE, Data |-> body.data]
      [] body.kind \in {"envelope", "badtype"} -> [err |-> FALSE, Data |-> <<>>]
      [] body.kind \in {"empty", "text", "object", "bytes"} -> [err |-> TRUE, Data |-> <<>>]

\* the query of the one search request
GetTaskSummaryParams(projectGID, clock) ==
    (IF projectGID # ""
     THEN ("projects.any" :> projectGID)
     ELSE ("modified_on.after" :> Format(AddDate(TimeNow(clock), -1, 0, 0))))
    @@ ("limit" :> "100")
    @@ ("opt_fields" :> "gid,completed,due_on,assignee,assignee.name")

NewSummary ==
    [TotalTasks |-> 0, CompletedTasks |-> 0, OpenTasks |-> 0, OverdueTasks |-> 0,
     ByAssignee |-> [n \in {} |-> 0], Unassigned |-> 0]

\* summary.ByAssignee[name]++
Incr(m, name) ==
    IF name \in DOMAIN m THEN [m EXCEPT ![name] = @ + 1] ELSE m @@ (name :> 1)

\* one iteration of the loop over resp.Data
SummaryStepMutOpen(s, task, today) ==
    [s EXCEPT
        !.TotalTasks = @ + 1,
        !.CompletedTasks = IF task.Completed THEN @ + 1 ELSE @,
        !.OpenTasks = @ + 1,
        !.OverdueTasks = IF ~task.Completed /\ task.DueOn # <<>> /\ StrLess(task.DueOn, today)
                         THEN @ + 1 ELSE @,
        !.ByAssignee = IF task.Assignee # Nil THEN Incr(@, task.Assignee.Name) ELSE @,
        !.Unassigned = IF task.Assignee # Nil THEN @ ELSE @ + 1]
SummaryStepMutAssign(s, task, today) ==
    [s EXCEPT
        !.TotalTasks = @ + 1,
        !.CompletedTasks = IF task.Completed THEN @ + 1 ELSE @,
        !.OpenTasks = IF task.Completed THEN @ ELSE @ + 1,
        !.OverdueTasks = IF ~task.Completed /\ task.DueOn # <<>> /\ StrLess(task.DueOn, today)
                         THEN @ + 1 ELSE @,
        !.ByAssignee = IF task.Assignee # Nil
                       THEN [n \in DOMAIN @ \cup {task.Assignee.Name} |->
                                IF n = task.Assignee.Name THEN 1 ELSE @[n]]
                       ELSE @,
        !.Unassigned = IF task.Assignee # Nil THEN @ ELSE @ + 1]
SummaryStepMutCompletedOverdue(s, task, today) ==
    [s EXCEPT
        !.TotalTasks = @ + 1,
        !.CompletedTasks = IF task.Completed THEN @ + 1 ELSE @,
        !.OpenTasks = IF task.Completed THEN @ ELSE @ + 1,
        !.OverdueTasks = IF task.DueOn # <<>> /\ StrLess(task.DueOn, today)
                         THEN @ + 1 ELSE @,
        !.ByAssignee = IF task.Assignee # Nil THEN Incr(@, task.Assignee.Name) ELSE @,
        !.Unassigned = IF task.Assignee # Nil THEN @ ELSE @ + 1]
SummaryStepMutDueToday(s, task, today) ==
    [s EXCEPT
        !.TotalTasks = @ + 1,
        !.CompletedTasks = IF task.Completed THEN @ + 1 ELSE @,
        !.OpenTasks = IF task.Completed THEN @ ELSE @ + 1,
        !.OverdueTasks = IF ~task.Completed /\ task.DueOn # <<>> /\ ~StrLess(today, task.DueOn)
                         THEN @ + 1 ELSE @,
        !.ByAssignee = IF task.Assignee # Nil THEN Incr(@, task.Assignee.Name) ELSE @,
        !.Unassigned = IF task.Assignee # Nil THEN @ ELSE @ + 1]
SummaryStep(s, task, today) ==
    [s EXCEPT
        !.TotalTasks = @ + 1,
        !.CompletedTasks = IF task.Completed THEN @ + 1 ELSE @,
        !.OpenTasks = IF task.Completed THEN @ ELSE @ + 1,
        !.OverdueTasks = IF ~task.Completed /\ task.DueOn # <<>> /\ StrLess(task.DueOn, today)
                         THEN @ + 1 ELSE @,
        !.ByAssignee = IF task.Assignee # Nil THEN Incr(@, task.Assignee.Name) ELSE @,
        !.Unassigned = IF task.Assignee # Nil THEN @ ELSE @ + 1]

\* the loop: the records in order, from an empty summary
RECURSIVE Aggregate(_, _, _)
Aggregate(s, data, today) ==
    IF data = <<>> THEN s
    ELSE Aggregate(SummaryStep(s, Head(data), today), Tail(data), today)

GetTaskSummaryCalls ==
    {[op |-> "GetTaskSummary", c |-> [token |-> "tokA", workspace |-> "ws1"],
      projectGID |-> p] : p \in {"", "P1"}}

SummaryStatuses == {200, 404}

GetTaskSummary_Send ==
    /\ pc = "ready" /\ call.op = "GetTaskSummary"
    /\ wire' = Append(wire, doRequestBuild(call.c, "GET",
                 Endpoint("/workspaces/" \o call.c.workspace \o "/tasks/search",
                          GetTaskSummaryParams(call.projectGID, now)), Nil))
    /\ pc' = "awaiting"
    /\ UNCHANGED <<call, now, resp, ret, fs>>

GetTaskSummary_Fail ==
    /\ pc = "awaiting" /\ call.op = "GetTaskSummary"
    /\ ret' = [summary |-> Nil, err |-> Errorf("executing request: connection refused")]
    /\ pc' = "done"
    /\ UNCHANGED <<call, now, wire, resp, fs>>

\* the response of the search: decode it and count its records
GetTaskSummary_RecvMutNextPage ==
    /\ pc = "awaiting" /\ call.op = "GetTaskSummary"
    /\ \E status \in SummaryStatuses :
       \E body \in (IF IsFailure(status) THEN JSONBodies
                    ELSE TaskPages \cup {TextBody, ObjectBody, Envelope(<<>>)}) :
          LET r == doRequestResult(status, body)
              decoded == UnmarshalTasksResponse(body)
              today == Format(TimeNow(now))
          IN  /\ resp' = [status |-> status, body |-> body, readOK |-> TRUE]
              /\ IF r.err = Nil /\ body.kind = "tasks" /\ body.next_page /\ Len(wire) < 2
                 THEN /\ wire' = Append(wire, wire[1])
                      /\ pc' = "awaiting"
                      /\ UNCHANGED ret
                 ELSE /\ ret' = IF r.err # Nil THEN [summary |-> Nil, err |-> r.err]
                                ELSE IF decoded.err
                                THEN [summary |-> Nil,
                                      err |-> Errorf("parsing response: invalid character")]
                                ELSE [summary |-> Aggregate(NewSummary, decoded.Data, today),
                                      err |-> Nil]
                      /\ pc' = "done"
                      /\ UNCHANGED wire
    /\ UNCHANGED <<call, now, fs>>
GetTaskSummary_Recv ==
    /\ pc = "awaiting" /\ call.op = "GetTaskSummary"
    /\ \E status \in SummaryStatuses :
       \E body \in (IF IsFailure(status) THEN JSONBodies
                    ELSE TaskPages \cup {TextBody, ObjectBody, Envelope(<<>>)}) :
          LET r == doRequestResult(status, body)
              decoded == UnmarshalTasksResponse(body)
              today == Format(TimeNow(now))
          IN  /\ resp' = [status |-> status, body |-> body, readOK |-> TRUE]
              /\ ret' = IF r.err # Nil THEN [summary |-> Nil, err |-> r.err]
                        ELSE IF decoded.err
                        THEN [summary |-> Nil,
                              err |-> Errorf("parsing response: invalid character")]
                        ELSE [summary |-> Aggregate(NewSummary, decoded.Data, today),
                              err |-> Nil]
    /\ pc' = "done"
    /\ UNCHANGED <<call, now, wire, fs>>

\* the clock advances while the operation runs
Tick ==
    /\ pc # "done"
    /\ now < MaxDay
    /\ now' = now + 1
    /\ UNCHANGED <<pc, call, wire, resp, ret, fs>>

InitSummary ==
    /\ pc = "ready"
    /\ call \in GetTaskSummaryCalls
    /\ now = 0
    /\ wire = <<>>
    /\ resp = NoResp
    /\ ret = NoRet
    /\ fs = DefaultFS

NextSummary ==
    \/ GetTaskSummary_Send
    \/ GetTaskSummary_Fail
    \/ GetTaskSummary_Recv
    \/ Tick

SpecSummary == InitSummary /\ [][NextSummary]_vars

(***************************************************************************)
(* Query construction: ListTasks, applyDueFilter, SearchTasks,             *)
(* ListProjects, and the tasks list command that calls ListTasks.          *)
(***************************************************************************)
\* the due filters, as the bytes the switch compares
KwToday == <<116, 111, 100, 97, 121>>
KwTomorrow == <<116, 111, 109, 111, 114, 114, 111, 119>>
KwWeek == <<119, 101, 101, 107>>
KwOverdue == <<111, 118, 101, 114, 100, 117, 101>>
LiteralDate == Format([y |-> 2024, m |-> 3, d |-> 15])
Malformed == <<115, 111, 111, 110>>
DueFilters == {<<>>, KwToday, KwTomorrow, KwWeek, KwOverdue, LiteralDate, Malformed}

\* params.Set(key, value)
Set(params, key, value) == (key :> value) @@ params

\* applyDueFilter, with the dates its three readings of the clock gave
applyDueFilterMutDropUnknown(params, due, today, tomorrow, weekEnd) ==
    CASE due = KwToday -> Set(params, "due_on", today)
      [] due = KwTomorrow -> Set(params, "due_on", tomorrow)
      [] due = KwWeek -> Set(Set(params, "due_on.before", weekEnd), "due_on.after", today)
      [] due = KwOverdue -> Set(params, "due_on.before", today)
      [] OTHER -> params
applyDueFilterMutOverdueRange(params, due, today, tomorrow, weekEnd) ==
    CASE due = KwToday -> Set(params, "due_on", today)
      [] due = KwTomorrow -> Set(params, "due_on", tomorrow)
      [] due = KwWeek -> Set(Set(params, "due_on.before", weekEnd), "due_on.after", today)
      [] due = KwOverdue -> Set(params, "due_on.before", tomorrow)
      [] OTHER -> Set(params, "due_on", due)
applyDueFilter(params, due, today, tomorrow, weekEnd) ==
    CASE due = KwToday -> Set(params, "due_on", today)
      [] due = KwTomorrow -> Set(params, "due_on", tomorrow)
      [] due = KwWeek -> Set(Set(params, "due_on.before", weekEnd), "due_on.after", today)
      [] due = KwOverdue -> Set(params, "due_on.before", today)
      [] OTHER -> Set(params, "due_on", due)

\* the project, assignee and tag filters of ListTasks
FilterParamsMutAlways(params, opts) ==
    Set(Set(Set(params, "projects.any", opts.Project), "assignee.any", opts.Assignee),
        "tags.any", opts.Tag)
FilterParams(params, opts) ==
    LET p1 == IF opts.Project # "" THEN Set(params, "projects.any", opts.Project) ELSE params
        p2 == IF opts.Assignee # "" THEN Set(p1, "assignee.any", opts.Assignee) ELSE p1
    IN  IF opts.Tag # "" THEN Set(p2, "tags.any", opts.Tag) ELSE p2

\* the completed filter of ListTasks
CompletedParamMutBoth(params, opts) ==
    IF ~opts.IncludeCompleted THEN Set(params, "completed", "false")
    ELSE Set(params, "completed", "true")
CompletedParam(params, opts) ==
    IF ~opts.IncludeCompleted THEN Set(params, "completed", "false") ELSE params

\* the limit, as ListTasks, SearchTasks and ListProjects set it
DefaultLimit == 100
LimitParamMutZero(params, limit) ==
    IF limit >= 0 THEN Set(params, "limit", ToString(limit))
    ELSE Set(params, "limit", ToString(DefaultLimit))
LimitParam(params, limit) ==
    IF limit > 0 THEN Set(params, "limit", ToString(limit))
    ELSE Set(params, "limit", ToString(DefaultLimit))

\* the sort of ListTasks
SortParamsMutAscending(params, opts) ==
    IF opts.SortBy # "" THEN Set(Set(params, "sort_by", opts.SortBy), "sort_ascending", "true")
    ELSE Set(params, "sort_ascending", "true")
SortParams(params, opts) ==
    IF opts.SortBy # "" THEN Set(Set(params, "sort_by", opts.SortBy), "sort_ascending", "true")
    ELSE params

\* the query of ListTasks; t1, t2, t3 are what time.Now() returned in applyDueFilter
ListTasksParams(opts, t1, t2, t3) ==
    LET p1 == FilterParams(NoQuery, opts)
        p2 == IF opts.Due # <<>>
              THEN applyDueFilter(p1, opts.Due, Format(TimeNow(t1)),
                                  Format(AddDate(TimeNow(t2), 0, 0, 1)),
                                  Format(AddDate(TimeNow(t3), 0, 0, 7)))
              ELSE p1
        p3 == CompletedParam(p2, opts)
        p4 == LimitParam(p3, opts.Limit)
        p5 == SortParams(p4, opts)
        p6 == Set(p5, "is_subtask", "false")
    IN  Set(p6, "opt_fields", "gid,name,completed,due_on,assignee,assignee.name,projects,projects.name,tags,tags.name,permalink_url")

\* the query of SearchTasks
SearchTasksParams(query, limit) ==
    LET p1 == IF query # "" THEN Set(NoQuery, "text", query) ELSE NoQuery
        p2 == Set(p1, "completed", "false")
        p3 == LimitParam(p2, limit)
    IN  Set(p3, "opt_fields", "gid,name,completed,due_on,assignee,assignee.name,projects,projects.name,permalink_url")

\* the query of ListProjects
ListProjectsParams(archived, limit) ==
    LET p1 == Set(NoQuery, "archived", IF archived THEN "true" ELSE "false")
        p2 == LimitParam(p1, limit)
    IN  Set(p2, "opt_fields", "gid,name,archived,color,created_at,permalink_url")

\* the flags of the tasks list command: given with a value, or left out
Flag(v) == [set |-> TRUE, val |-> v]
NoFlag == [set |-> FALSE]

\* the command line parser fills a flag left out with the default of its tag
TasksListCmdMutNoSortDefault(args) ==
    [Mine |-> args.Mine, Project |-> args.Project,
     Assignee |-> args.Assignee, Tag |-> args.Tag, Due |-> args.Due, All |-> args.All,
     Limit |-> IF args.Limit.set THEN args.Limit.val ELSE 25,
     Sort |-> IF args.Sort.set THEN args.Sort.val ELSE ""]
TasksListCmd(args) ==
    [Mine |-> args.Mine, Project |-> args.Project,
     Assignee |-> args.Assignee, Tag |-> args.Tag, Due |-> args.Due, All |-> args.All,
     Limit |-> IF args.Limit.set THEN args.Limit.val ELSE 25,
     Sort |-> IF args.Sort.set THEN args.Sort.val ELSE "due_date"]

\* TasksListCmd.Run: the options it hands to ListTasks
TaskListOptions(c) ==
    [Project |-> c.Project,
     Assignee |-> IF c.Mine THEN "me" ELSE c.Assignee,
     Tag |-> c.Tag, Due |-> c.Due, IncludeCompleted |-> c.All,
     Limit |-> c.Limit, SortBy |-> c.Sort]

Limits == {-1, 0, 1, 25}

TheClient == [token |-> "tokA", workspace |-> "ws1"]

ListTasksCalls ==
    {[op |-> "ListTasks", c |-> TheClient, opts |-> o] :
        o \in [Project : {"", "P1"}, Assignee : {"", "me"}, Tag : {"", "T1"},
               Due : DueFilters, IncludeCompleted : BOOLEAN, Limit : Limits,
               SortBy : {"", "created_at"}]}

TasksListCmdCalls ==
    {[op |-> "TasksListCmd.Run", c |-> TheClient, args |-> a] :
        a \in [Mine : BOOLEAN, Project : {""}, Assignee : {"", "7"}, Tag : {""},
               Due : {<<>>, KwToday}, All : BOOLEAN,
               Limit : {NoFlag, Flag(0), Flag(5)},
               Sort : {NoFlag, Flag(""), Flag("created_at")}]}

SearchTasksCalls ==
    {[op |-> "SearchTasks", c |-> TheClient, query |-> q, limit |-> l] :
        q \in {"", "bug"}, l \in Limits}

ListProjectsCalls ==
    {[op |-> "ListProjects", c |-> TheClient, archived |-> a, limit |-> l] :
        a \in BOOLEAN, l \in Limits}

\* the options ListTasks is called with
Opts == IF call.op = "ListTasks" THEN call.opts ELSE TaskListOptions(TasksListCmd(call.args))

\* ListTasks up to its request; the clock is read three times when a due filter is set
ListTasksRequest ==
    \E t1 \in now..MaxDay : \E t2 \in t1..MaxDay : \E t3 \in t2..MaxDay :
        /\ Opts.Due = <<>> => t1 = now /\ t3 = now
        /\ now' = t3
        /\ wire' = Append(wire, doRequestBuild(call.c, "GET",
                     Endpoint("/workspaces/" \o call.c.workspace \o "/tasks/search",
                              ListTasksParams(Opts, t1, t2, t3)), Nil))
        /\ pc' = "awaiting"
        /\ UNCHANGED <<call, resp, ret, fs>>

ListTasks_Send ==
    /\ pc = "ready" /\ call.op = "ListTasks"
    /\ ListTasksRequest

TasksListCmd_Run ==
    /\ pc = "ready" /\ call.op = "TasksListCmd.Run"
    /\ ListTasksRequest

SearchTasks_Send ==
    /\ pc = "ready" /\ call.op = "SearchTasks"
    /\ wire' = Append(wire, doRequestBuild(call.c, "GET",
                 Endpoint("/workspaces/" \o call.c.workspace \o "/tasks/search",
                          SearchTasksParams(call.query, call.limit)), Nil))
    /\ pc' = "awaiting"
    /\ UNCHANGED <<call, now, resp, ret, fs>>

ListProjects_Send ==
    /\ pc = "ready" /\ call.op = "ListProjects"
    /\ wire' = Append(wire, doRequestBuild(call.c, "GET",
                 Endpoint("/workspaces/" \o call.c.workspace \o "/projects",
                          ListProjectsParams(call.archived, call.limit)), Nil))
    /\ pc' = "awaiting"
    /\ UNCHANGED <<call, now, resp, ret, fs>>

QueryOps == {"ListTasks", "TasksListCmd.Run", "SearchTasks", "ListProjects"}

List_Fail ==
    /\ pc = "awaiting" /\ call.op \in QueryOps
    /\ ret' = [data |-> <<>>, err |-> Errorf("executing request: connection refused")]
    /\ pc' = "done"
    /\ UNCHANGED <<call, now, wire, resp, fs>>

\* a page of one record, with a next_page marker
OneTaskPage ==
    TasksBody(<<[Completed |-> FALSE, DueOn |-> LiteralDate, Assignee |-> Nil]>>, TRUE)

\* the response: doRequest's verdict, then json.Unmarshal into the list
List_Recv ==
    /\ pc = "awaiting" /\ call.op \in QueryOps
    /\ \E status \in SummaryStatuses :
       \E body \in (IF IsFailure(status) THEN {Envelope(<<"Forbidden">>), EmptyBody}
                    ELSE {TasksBody(<<>>, FALSE), OneTaskPage, TextBody}) :
          LET r == doRequestResult(status, body)
              decoded == UnmarshalTasksResponse(body)
          IN  /\ resp' = [status |-> status, body |-> body, readOK |-> TRUE]
              /\ ret' = IF r.err # Nil THEN [data |-> <<>>, err |-> r.err]
                        ELSE IF decoded.err
                        THEN [data |-> <<>>,
                              err |-> Errorf("parsing response: invalid character")]
                        ELSE [data |-> decoded.Data, err |-> Nil]
    /\ pc' = "done"
    /\ UNCHANGED <<call, now, wire, fs>>

InitQuery ==
    /\ pc = "ready"
    /\ call \in ListTasksCalls \cup TasksListCmdCalls \cup SearchTasksCalls
                \cup ListProjectsCalls
    /\ now = 0
    /\ wire = <<>>
    /\ resp = NoResp
    /\ ret = NoRet
    /\ fs = DefaultFS

NextQuery ==
    \/ ListTasks_Send
    \/ TasksListCmd_Run
    \/ SearchTasks_Send
    \/ ListProjects_Send
    \/ List_Fail
    \/ List_Recv

SpecQuery == InitQuery /\ [][NextQuery]_vars

(***************************************************************************)
(* The commands: main, and the Run methods of tasks get, attachments      *)
(* download, attachments delete, projects list and attachments list.      *)
(* The client is configured; ret holds what the last core call returned   *)
(* and, once the process has exited, its exit code and its output.        *)
(***************************************************************************)
MaxRows == 2
MaxLine == 3

\* created_at as the service may send it: absent, "2024", a date, a timestamp
FullStamp ==
    Format([y |-> 2024, m |-> 3, d |-> 15]) \o <<84, 49, 48, 58, 51, 48, 58, 48, 48, 90>>
CreatedAts == {<<>>, <<50, 48, 50, 52>>, SubSeq(FullStamp, 1, 10), FullStamp}

\* the documents of the endpoints the commands call, and what they hold
TheTask == [GID |-> "T1", Name |-> "Fix login", Completed |-> FALSE]
Stories == [GID : {"S1"}, CreatedAt : CreatedAts,
            CreatedBy : {Nil, [GID |-> "1", Name |-> "Ann"]}, Text : {"hi"}]
Attachments == [GID : {"A1"}, Name : {"report.pdf"}, CreatedAt : CreatedAts,
                DownloadURL : DownloadURLs]
Projects == [GID : {"P1"}, Name : {"Web"}, Archived : BOOLEAN, CreatedAt : CreatedAts]

TaskDocs == {[kind |-> "task", data |-> TheTask]}
StoriesDocs == {[kind |-> "stories", data |-> d] : d \in SeqsUpTo(Stories, MaxRows)}
AttachmentDocs ==
    {[kind |-> "attachment", data |-> a] :
        a \in {x \in Attachments : x.CreatedAt = FullStamp}}
AttachmentsDocs ==
    {[kind |-> "attachments", data |-> d] :
        d \in SeqsUpTo({x \in Attachments : x.DownloadURL = ""}, MaxRows)}
ProjectsDocs == {[kind |-> "projects", data |-> d] : d \in SeqsUpTo(Projects, MaxRows)}

\* json.Unmarshal(body, &resp) with resp the response type of the endpoint
Unmarshal(body, kind) ==
    CASE body.kind = kind -> [err |-> FALSE, Data |-> body.data]
      [] body.kind \in {"empty", "text"} -> [err |-> TRUE, Data |-> Nil]

\* c.httpClient.Do returned an error and no response
NetErr == [kind |-> "failed"]

\* what may come back for a request: no response, a refusal, or status 200
\* with one of the documents or with bytes that are no JSON
Answers(docs) ==
    {NetErr}
    \cup {[status |-> 404, body |-> b, readOK |-> TRUE] :
            b \in {Envelope(<<"Not Found">>), EmptyBody}}
    \cup {[status |-> 200, body |-> b, readOK |-> TRUE] : b \in docs \cup {TextBody}}

\* GetTask, GetTaskStories, GetAttachment, ListAttachments, ListProjects after
\* their request: doRequest's verdict, then json.Unmarshal
CoreReturn(r, kind) ==
    IF r = NetErr
    THEN [data |-> Nil, err |-> Errorf("executing request: connection refused")]
    ELSE LET q == doRequestResult(r.status, r.body) IN
         IF q.err # Nil THEN [data |-> Nil, err |-> q.err]
         ELSE LET d == Unmarshal(r.body, kind) IN
              IF d.err
              THEN [data |-> Nil, err |-> Errorf("parsing response: invalid character")]
              ELSE [data |-> d.Data, err |-> Nil]

\* DeleteAttachment after its request: the body is not looked at
DeleteAttachmentReturn(r) ==
    IF r = NetErr
    THEN [data |-> Nil, err |-> Errorf("executing request: connection refused")]
    ELSE [data |-> Nil, err |-> doRequestResult(r.status, r.body).err]

\* the requests of the core calls: a GET of a path with its opt_fields, a DELETE
GetTaskRequest(c, gid) ==
    doRequestBuild(c, "GET",
        Endpoint("/tasks/" \o gid,
            Set(NoQuery, "opt_fields", "gid,name,notes,html_notes,completed,completed_at,due_on,due_at,created_at,modified_at,assignee,assignee.name,assignee.email,projects,projects.name,tags,tags.name,permalink_url")), Nil)
GetTaskStoriesRequest(c, gid) ==
    doRequestBuild(c, "GET",
        Endpoint("/tasks/" \o gid \o "/stories",
            Set(NoQuery, "opt_fields", "gid,created_at,created_by,created_by.name,text,html_text,type,resource_subtype")), Nil)
GetAttachmentRequest(c, gid) ==
    doRequestBuild(c, "GET",
        Endpoint("/attachments/" \o gid,
            Set(NoQuery, "opt_fields", "gid,name,resource_subtype,created_at,download_url,permanent_url,view_url,host,size,parent,parent.name")), Nil)
ListAttachmentsRequest(c, gid) ==
    doRequestBuild(c, "GET",
        Endpoint("/tasks/" \o gid \o "/attachments",
            Set(NoQuery, "opt_fields", "gid,name,resource_subtype,created_at,host,size")), Nil)
DeleteAttachmentRequest(c, gid) ==
    doRequestBuild(c, "DELETE", Endpoint("/attachments/" \o gid, NoQuery), Nil)
ListProjectsRequest(c, archived, limit) ==
    doRequestBuild(c, "GET", Endpoint("/workspaces/" \o c.workspace \o "/projects",
                                      ListProjectsParams(archived, limit)), Nil)

\* main: ctx.Run(client), then ctx.FatalIfErrorf(err); core is what the last
\* core call returned, out the lines printed
FatalIfErrorfMutZero(core, err, out) ==
    [kind |-> "exit", core |-> core, code |-> 0, stdout |-> out, stderr |-> err]
FatalIfErrorf(core, err, out) ==
    [kind |-> "exit", core |-> core, code |-> IF err = Nil THEN 0 ELSE 1,
     stdout |-> out, stderr |-> err]

\* a slice expression out of range: the runtime ends the process
Panic(core) ==
    [kind |-> "exit", core |-> core, code |-> 2, stdout |-> <<>>,
     stderr |-> Errorf("panic: runtime error: slice bounds out of range")]

\* printJSON: one line when the encoder could write, else its error
printJSON(core, v, ok) ==
    IF ok THEN FatalIfErrorf(core, Nil, <<[text |-> "json", v |-> v]>>)
    ELSE FatalIfErrorf(core, Errorf("encoding JSON: write error"), <<>>)

\* the characters a confirmation line is made of, and the lines
Lines == SeqsUpTo({"y", "Y", "n", " "}, MaxLine)

\* fmt.Scanln(&response): blanks are skipped, then the characters up to the
\* next blank or the end of the line are stored; what follows is not looked at
RECURSIVE SkipSpace(_)
SkipSpace(line) ==
    IF line # <<>> /\ Head(line) = " " THEN SkipSpace(Tail(line)) ELSE line
RECURSIVE Token(_)
Token(line) ==
    IF line = <<>> \/ Head(line) = " " THEN <<>>
    ELSE <<Head(line)>> \o Token(Tail(line))
Scanln(line) == Token(SkipSpace(line))

\* the rows of the tables and of the comments list; "-" stands for no date
ProjectRow(project) ==
    [GID |-> project.GID, name |-> project.Name,
     archived |-> IF project.Archived THEN "Yes" ELSE "No",
     created |-> IF project.CreatedAt # <<>> THEN SubSeq(project.CreatedAt, 1, 10)
                 ELSE <<Dash>>]

AttachmentRow(a) ==
    [GID |-> a.GID, name |-> a.Name,
     created |-> IF a.CreatedAt # <<>> /\ Len(a.CreatedAt) >= 10
                 THEN SubSeq(a.CreatedAt, 1, 10) ELSE <<Dash>>]

StoryLines(story) ==
    [timestamp |-> IF Len(story.CreatedAt) > 10 THEN SubSeq(story.CreatedAt, 1, 10)
                   ELSE story.CreatedAt,
     author |-> IF story.CreatedBy # Nil THEN story.CreatedBy.Name ELSE "Unknown",
     text |-> story.Text]

\* the invocations
CommandCalls ==
    {[op |-> "tasks get", c |-> TheClient,
      args |-> [TaskGID |-> "T1", Comments |-> cm, JSON |-> j]] : cm, j \in BOOLEAN}
    \cup {[op |-> "attachments download", c |-> TheClient,
      args |-> [AttachmentGID |-> "A1", Output |-> o]] : o \in {"", "report.pdf"}}
    \cup {[op |-> "attachments delete", c |-> TheClient,
      args |-> [AttachmentGID |-> "A1", Force |-> f], stdin |-> l] :
        f \in BOOLEAN, l \in Lines}
    \cup {[op |-> "projects list", c |-> TheClient,
      args |-> [Archived |-> FALSE, Limit |-> 50, JSON |-> j]] : j \in BOOLEAN}
    \cup {[op |-> "attachments list", c |-> TheClient,
      args |-> [TaskGID |-> "T1", JSON |-> j]] : j \in BOOLEAN}

\* a command's first request
Cmd_Send(request, next) ==
    /\ wire' = Append(wire, request)
    /\ pc' = next
    /\ UNCHANGED <<call, now, resp, ret, fs>>

\* the process ends
Exit(outcome) ==
    /\ ret' = outcome
    /\ pc' = "exited"

(* tasks get *)
TasksGetRender(core, task, stories, ok) ==
    IF call.args.JSON
    THEN printJSON(core, IF call.args.Comments
                         THEN [task |-> task, comments |-> stories]
                         ELSE [task |-> task], ok)
    ELSE FatalIfErrorf(core, Nil,
            <<[text |-> "Task: %s", name |-> task.Name]>>
            \o (IF call.args.Comments /\ Len(stories) > 0
                THEN <<[text |-> "Comments & Activity (%d):", n |-> Len(stories)]>>
                     \o [i \in DOMAIN stories |-> StoryLines(stories[i])]
                ELSE <<>>))

TasksGetCmd_Run ==
    /\ pc = "ready" /\ call.op = "tasks get"
    /\ Cmd_Send(GetTaskRequest(call.c, call.args.TaskGID), "GetTask")

TasksGetCmd_GetTaskMutBoth ==
    /\ pc = "GetTask" /\ call.op = "tasks get"
    /\ \E r \in Answers(TaskDocs), ok \in BOOLEAN :
          LET core == CoreReturn(r, "task") IN
          /\ resp' = r
          /\ IF call.args.Comments
             THEN /\ ok
                  /\ wire' = Append(wire, GetTaskStoriesRequest(call.c, call.args.TaskGID))
                  /\ ret' = [kind |-> "value", data |-> IF core.err = Nil THEN core.data ELSE TheTask]
                  /\ pc' = "GetTaskStories"
             ELSE IF core.err # Nil
             THEN /\ ok
                  /\ Exit(FatalIfErrorf(core, core.err, <<>>))
                  /\ UNCHANGED wire
             ELSE /\ Exit(TasksGetRender(core, core.data, <<>>, ok))
                  /\ call.args.JSON \/ ok
                  /\ UNCHANGED wire
    /\ UNCHANGED <<call, now, fs>>
TasksGetCmd_GetTask ==
    /\ pc = "GetTask" /\ call.op = "tasks get"
    /\ \E r \in Answers(TaskDocs), ok \in BOOLEAN :
          LET core == CoreReturn(r, "task") IN
          /\ resp' = r
          /\ IF core.err # Nil
             THEN /\ ok
                  /\ Exit(FatalIfErrorf(core, core.err, <<>>))
                  /\ UNCHANGED wire
             ELSE IF call.args.Comments
             THEN /\ ok
                  /\ wire' = Append(wire, GetTaskStoriesRequest(call.c, call.args.TaskGID))
                  /\ ret' = [kind |-> "value", data |-> core.data]
                  /\ pc' = "GetTaskStories"
             ELSE /\ Exit(TasksGetRender(core, core.data, <<>>, ok))
                  /\ call.args.JSON \/ ok
                  /\ UNCHANGED wire
    /\ UNCHANGED <<call, now, fs>>

TasksGetCmd_GetTaskStories ==
    /\ pc = "GetTaskStories" /\ call.op = "tasks get"
    /\ \E r \in Answers(StoriesDocs), ok \in BOOLEAN :
          LET core == CoreReturn(r, "stories") IN
          /\ resp' = r
          /\ IF core.err # Nil
             THEN ok /\ Exit(FatalIfErrorf(core, core.err, <<>>))
             ELSE /\ Exit(TasksGetRender(core, ret.data, core.data, ok))
                  /\ call.args.JSON \/ ok
    /\ UNCHANGED <<call, now, wire, fs>>

(* attachments download *)
\* destPath: the output flag, else filepath.Join(".", attachment.Name)
DestPath(attachment) ==
    IF call.args.Output # "" THEN call.args.Output ELSE attachment.Name

AttachmentsDownloadCmd_Run ==
    /\ pc = "ready" /\ call.op = "attachments download"
    /\ Cmd_Send(GetAttachmentRequest(call.c, call.args.AttachmentGID), "GetAttachment")

\* GetAttachment returns; DownloadAttachment starts
AttachmentsDownloadCmd_GetAttachment ==
    /\ pc = "GetAttachment" /\ call.op = "attachments download"
    /\ \E r \in Answers(AttachmentDocs) :
          LET core == CoreReturn(r, "attachment") IN
          /\ resp' = r
          /\ IF core.err # Nil
             THEN /\ Exit(FatalIfErrorf(core, core.err, <<>>))
                  /\ UNCHANGED wire
             ELSE IF core.data.DownloadURL = ""
             THEN /\ Exit(FatalIfErrorf(
                            [data |-> Nil, err |-> Errorf("attachment has no download URL")],
                            Errorf("attachment has no download URL"), <<>>))
                  /\ UNCHANGED wire
             ELSE /\ wire' = Append(wire, DownloadRequest(call.c, core.data))
                  /\ ret' = [kind |-> "value", data |-> core.data]
                  /\ pc' = "DownloadAttachment"
    /\ UNCHANGED <<call, now, fs>>

\* DownloadAttachment after its GET: status, os.Create, io.Copy
AttachmentsDownloadCmd_DownloadAttachment ==
    /\ pc = "DownloadAttachment" /\ call.op = "attachments download"
    /\ \E r \in {NetErr} \cup {[status |-> s, body |-> b, readOK |-> TRUE] :
                                 s \in SummaryStatuses, b \in FileBodies} :
       \E n \in 0..(IF r = NetErr THEN 0 ELSE Len(r.body.data)), failed \in BOOLEAN :
          LET dest == DestPath(ret.data)
              err == IF r = NetErr THEN Errorf("downloading file: connection refused")
                     ELSE IF r.status >= 400
                     THEN Errorf("download failed with status " \o ToString(r.status))
                     ELSE IF ~CanCreate(fs.files[dest])
                     THEN Errorf("creating file: permission denied")
                     ELSE IF failed THEN Errorf("writing file: short write")
                     ELSE Nil
              written == r # NetErr /\ r.status < 400 /\ CanCreate(fs.files[dest])
          IN  /\ resp' = r
              /\ ~written => n = 0 /\ ~failed
              /\ written /\ n < Len(r.body.data) => failed
              /\ fs' = IF written
                       THEN [fs EXCEPT !.files[dest] =
                                [Created(@) EXCEPT !.data = SubSeq(r.body.data, 1, n)]]
                       ELSE fs
              /\ Exit(FatalIfErrorf([data |-> Nil, err |-> err], err,
                        IF err = Nil THEN <<[text |-> "Downloaded: %s", path |-> dest]>>
                        ELSE <<>>))
    /\ UNCHANGED <<call, now, wire>>

(* attachments delete *)
Prompt == [text |-> "Are you sure you want to delete attachment %s? [y/N] "]

\* the lines printed before the request goes out
Prompted == IF call.args.Force THEN <<>> ELSE <<Prompt>>

AttachmentsDeleteCmd_Run ==
    /\ pc = "ready" /\ call.op = "attachments delete"
    /\ IF ~call.args.Force /\ Scanln(call.stdin) # <<"y">> /\ Scanln(call.stdin) # <<"Y">>
       THEN /\ Exit(FatalIfErrorf([data |-> Nil, err |-> Nil], Nil,
                                  <<Prompt, [text |-> "Cancelled."]>>))
            /\ UNCHANGED wire
       ELSE /\ wire' = Append(wire, DeleteAttachmentRequest(call.c, call.args.AttachmentGID))
            /\ pc' = "DeleteAttachment"
            /\ UNCHANGED ret
    /\ UNCHANGED <<call, now, resp, fs>>

AttachmentsDeleteCmd_DeleteAttachment ==
    /\ pc = "DeleteAttachment" /\ call.op = "attachments delete"
    /\ \E r \in Answers({EmptyBody, ObjectBody}) :
          LET core == DeleteAttachmentReturn(r) IN
          /\ resp' = r
          /\ Exit(FatalIfErrorf(core, core.err,
                    IF core.err = Nil
                    THEN Prompted \o <<[text |-> "Attachment %s deleted."]>>
                    ELSE Prompted))
    /\ UNCHANGED <<call, now, wire, fs>>

(* projects list *)
ProjectsListCmd_Run ==
    /\ pc = "ready" /\ call.op = "projects list"
    /\ Cmd_Send(ListProjectsRequest(call.c, call.args.Archived, call.args.Limit),
             "ListProjects")

ProjectsListCmd_ListProjects ==
    /\ pc = "ListProjects" /\ call.op = "projects list"
    /\ \E r \in Answers(ProjectsDocs), ok \in BOOLEAN :
          LET core == CoreReturn(r, "projects") IN
          /\ resp' = r
          /\ (call.args.JSON /\ core.err = Nil) \/ ok
          /\ Exit(IF core.err # Nil THEN FatalIfErrorf(core, core.err, <<>>)
                  ELSE IF call.args.JSON THEN printJSON(core, core.data, ok)
                  ELSE IF Len(core.data) = 0
                  THEN FatalIfErrorf(core, Nil, <<[text |-> "No projects found."]>>)
                  ELSE IF \E i \in DOMAIN core.data :
                             /\ core.data[i].CreatedAt # <<>>
                             /\ Len(core.data[i].CreatedAt) < 10
                  THEN Panic(core)
                  ELSE FatalIfErrorf(core, Nil,
                          [i \in DOMAIN core.data |-> ProjectRow(core.data[i])]))
    /\ UNCHANGED <<call, now, wire, fs>>

(* attachments list *)
AttachmentsListCmd_Run ==
    /\ pc = "ready" /\ call.op = "attachments list"
    /\ Cmd_Send(ListAttachmentsRequest(call.c, call.args.TaskGID),
             "ListAttachments")

AttachmentsListCmd_ListAttachments ==
    /\ pc = "ListAttachments" /\ call.op = "attachments list"
    /\ \E r \in Answers(AttachmentsDocs), ok \in BOOLEAN :
          LET core == CoreReturn(r, "attachments") IN
          /\ resp' = r
          /\ (call.args.JSON /\ core.err = Nil) \/ ok
          /\ Exit(IF core.err # Nil THEN FatalIfErrorf(core, core.err, <<>>)
                  ELSE IF call.args.JSON THEN printJSON(core, core.data, ok)
                  ELSE IF Len(core.data) = 0
                  THEN FatalIfErrorf(core, Nil, <<[text |-> "No attachments found."]>>)
                  ELSE FatalIfErrorf(core, Nil,
                          [i \in DOMAIN core.data |-> AttachmentRow(core.data[i])]))
    /\ UNCHANGED <<call, now, wire, fs>>

InitCLI ==
    /\ pc = "ready"
    /\ call \in CommandCalls
    /\ now = 0
    /\ wire = <<>>
    /\ resp = NoResp
    /\ ret = NoRet
    /\ fs \in (IF call.op = "attachments download" THEN FSStates ELSE {DefaultFS})

NextCLI ==
    \/ TasksGetCmd_Run
    \/ TasksGetCmd_GetTask
    \/ TasksGetCmd_GetTaskStories
    \/ AttachmentsDownloadCmd_Run
    \/ AttachmentsDownloadCmd_GetAttachment
    \/ AttachmentsDownloadCmd_DownloadAttachment
    \/ AttachmentsDeleteCmd_Run
    \/ AttachmentsDeleteCmd_DeleteAttachment
    \/ ProjectsListCmd_Run
    \/ ProjectsListCmd_ListProjects
    \/ AttachmentsListCmd_Run
    \/ AttachmentsListCmd_ListAttachments

SpecCLI == InitCLI /\ [][NextCLI]_vars

(***************************************************************************)
(* config.Load: the environment, the dotenv files, the configuration.      *)
(* fs holds the files, the environment of the process and the log of the   *)
(* file system calls made.                                                 *)
(***************************************************************************)
Keys == {"ASANA_TOKEN", "ASANA_WORKSPACE"}

CustomFile == "custom.env"
CwdFile == ".env"
HomeFile == "~/.config/asana-cli/.env"
ConfigPaths == {CustomFile, CwdFile, HomeFile}

\* a variable of the environment: not set, or set to a value, the empty one too
Unset == [set |-> FALSE]
EnvVar(v) == [set |-> TRUE, val |-> v]
Environs == [Keys -> {Unset, EnvVar(""), EnvVar("env")}]

\* a dotenv file: absent, there but not loadable, or defining some of the keys,
\* each with the file's own value
ConfigFiles(path) ==
    {[exists |-> FALSE, ok |-> FALSE, vars |-> [k \in {} |-> ""]],
     [exists |-> TRUE, ok |-> FALSE, vars |-> [k \in {} |-> ""]]}
    \cup {[exists |-> TRUE, ok |-> TRUE, vars |-> [k \in ks |-> path]] : ks \in SUBSET Keys}

\* ConfigLocations: .env, then the file under the home directory if there is one
ConfigLocations(home) ==
    <<CwdFile>> \o (IF home THEN <<HomeFile>> ELSE <<>>)

\* godotenv.Load(file): the file's variables, but none that the environment has
godotenvLoadMutOverload(env, file) ==
    IF ~file.exists \/ ~file.ok THEN [err |-> TRUE, env |-> env]
    ELSE [err |-> FALSE,
          env |-> [k \in Keys |-> IF k \in DOMAIN file.vars
                                  THEN EnvVar(file.vars[k]) ELSE env[k]]]
godotenvLoad(env, file) ==
    IF ~file.exists \/ ~file.ok THEN [err |-> TRUE, env |-> env]
    ELSE [err |-> FALSE,
          env |-> [k \in Keys |-> IF ~env[k].set /\ k \in DOMAIN file.vars
                                  THEN EnvVar(file.vars[k]) ELSE env[k]]]

\* os.Getenv
Getenv(env, key) == IF env[key].set THEN env[key].val ELSE ""

LoadCalls ==
    {[op |-> "config.Load", configFile |-> f, home |-> h, env |-> e] :
        f \in {"", CustomFile}, h \in BOOLEAN, e \in Environs}

\* a config file is given: load that one, or fail
Load_ConfigFile ==
    /\ pc = "ready" /\ call.op = "config.Load"
    /\ call.configFile # ""
    /\ LET r == godotenvLoad(fs.env, fs.files[call.configFile]) IN
       /\ fs' = [fs EXCEPT !.env = r.env, !.log = Append(@, [op |-> "Load", path |-> call.configFile])]
       /\ IF r.err
          THEN /\ ret' = [cfg |-> Nil,
                          err |-> Errorf("failed to load config file " \o call.configFile
                                         \o ": no such file or directory")]
               /\ pc' = "done"
          ELSE /\ pc' = "loaded"
               /\ UNCHANGED ret
    /\ UNCHANGED <<call, now, wire, resp>>

\* the loop over the default locations from position i on: os.Stat, then
\* godotenv.Load of the first location that is there; fs.log records both
RECURSIVE TryLocations(_, _, _)
TryLocationsMutNoBreak(locs, i, f) ==
    IF i > Len(locs) THEN f
    ELSE LET loc == locs[i]
             statted == [f EXCEPT !.log = Append(@, [op |-> "Stat", path |-> loc])]
         IN  IF f.files[loc].exists
             THEN TryLocations(locs, i + 1,
                     [statted EXCEPT !.env = godotenvLoad(f.env, f.files[loc]).env,
                                     !.log = Append(@, [op |-> "Load", path |-> loc])])
             ELSE TryLocations(locs, i + 1, statted)
TryLocations(locs, i, f) ==
    IF i > Len(locs) THEN f
    ELSE LET loc == locs[i]
             statted == [f EXCEPT !.log = Append(@, [op |-> "Stat", path |-> loc])]
         IN  IF f.files[loc].exists
             THEN [statted EXCEPT !.env = godotenvLoad(f.env, f.files[loc]).env,
                                  !.log = Append(@, [op |-> "Load", path |-> loc])]
             ELSE TryLocations(locs, i + 1, statted)

\* no config file is given: the first default location that exists
Load_Defaults ==
    /\ pc = "ready" /\ call.op = "config.Load"
    /\ call.configFile = ""
    /\ fs' = TryLocations(ConfigLocations(call.home), 1, fs)
    /\ pc' = "loaded"
    /\ UNCHANGED <<call, now, wire, resp, ret>>

\* the two variables are read; both must be there
Load_Getenv ==
    /\ pc = "loaded" /\ call.op = "config.Load"
    /\ LET token == Getenv(fs.env, "ASANA_TOKEN")
           workspace == Getenv(fs.env, "ASANA_WORKSPACE")
       IN  ret' = IF token = "" THEN [cfg |-> Nil, err |-> Errorf("ASANA_TOKEN not set.")]
                  ELSE IF workspace = ""
                  THEN [cfg |-> Nil, err |-> Errorf("ASANA_WORKSPACE not set.")]
                  ELSE [cfg |-> [Token |-> token, Workspace |-> workspace], err |-> Nil]
    /\ pc' = "done"
    /\ UNCHANGED <<call, now, wire, resp, fs>>

InitConfig ==
    /\ pc = "ready"
    /\ call \in LoadCalls
    /\ now = 0
    /\ wire = <<>>
    /\ resp = NoResp
    /\ ret = NoRet
    /\ \E files \in [ConfigPaths -> UNION {ConfigFiles(p) : p \in ConfigPaths}] :
          /\ \A p \in ConfigPaths : files[p] \in ConfigFiles(p)
          /\ fs = [files |-> files, open |-> {}, env |-> call.env, log |-> <<>>]

NextConfig ==
    \/ Load_ConfigFile
    \/ Load_Defaults
    \/ Load_Getenv

SpecConfig == InitConfig /\ [][NextConfig]_vars

(***************************************************************************)
(* The program: one invocation of any of the operations.                   *)
(***************************************************************************)
Init == InitTransport \/ InitSummary \/ InitQuery \/ InitCLI \/ InitConfig

Next == NextTransport \/ NextSummary \/ NextQuery \/ NextCLI \/ NextConfig

Spec == Init /\ [][Next]_vars

(***************************************************************************)
(* Properties of GetTaskSummary, checked under SpecSummary.                *)
(***************************************************************************)
\* GetTaskSummary returned a summary
SummaryReturned == pc = "done" /\ call.op = "GetTaskSummary" /\ ret.err = Nil

\* the records the summary was computed from, and the date it was computed on
Records == UnmarshalTasksResponse(resp.body).Data
Today == Format(TimeNow(now))

RECURSIVE SumOver(_, _)
SumOver(m, names) ==
    IF names = {} THEN 0
    ELSE LET n == CHOOSE x \in names : TRUE IN m[n] + SumOver(m, names \ {n})

\* C1: for every list of records handed to the aggregation, the empty list
\* included, TotalTasks = OpenTasks + CompletedTasks, and TotalTasks is the
\* number of records in the decoded response.
C1_TotalIsOpenPlusCompleted ==
    SummaryReturned =>
        /\ ret.summary.TotalTasks = ret.summary.OpenTasks + ret.summary.CompletedTasks
        /\ ret.summary.TotalTasks = Len(Records)

C1_Witness ==
    /\ SummaryReturned
    /\ Len(Records) = 2
    /\ ret.summary.OpenTasks = 1
    /\ ret.summary.CompletedTasks = 1

\* C2: the ByAssignee counts and Unassigned add up to TotalTasks; every record
\* is counted once, in the bucket of its assignee's display name or in
\* Unassigned, also when assignees share a name or have an empty one.
C2_BucketsPartitionTotal ==
    SummaryReturned =>
        /\ SumOver(ret.summary.ByAssignee, DOMAIN ret.summary.ByAssignee)
             + ret.summary.Unassigned = ret.summary.TotalTasks
        /\ ret.summary.Unassigned =
             Cardinality({i \in 1..Len(Records) : Records[i].Assignee = Nil})
        /\ \A n \in DOMAIN ret.summary.ByAssignee :
             ret.summary.ByAssignee[n] =
               Cardinality({i \in 1..Len(Records) :
                              Records[i].Assignee # Nil /\ Records[i].Assignee.Name = n})

C2_Witness ==
    /\ SummaryReturned
    /\ Len(Records) = 2
    /\ Records[1].Assignee # Nil /\ Records[2].Assignee # Nil
    /\ Records[1].Assignee.GID # Records[2].Assignee.GID
    /\ Records[1].Assignee.Name = Records[2].Assignee.Name
    /\ ret.summary.ByAssignee[Records[1].Assignee.Name] = 2

\* C3: OverdueTasks <= OpenTasks in every summary; a completed record with a
\* due date in the past adds nothing to OverdueTasks.
C3_OverdueWithinOpen ==
    SummaryReturned =>
        /\ ret.summary.OverdueTasks <= ret.summary.OpenTasks
        /\ (\A i \in 1..Len(Records) : Records[i].Completed) =>
               ret.summary.OverdueTasks = 0

C3_Witness ==
    /\ SummaryReturned
    /\ Len(Records) = 2
    /\ \E i \in 1..Len(Records) :
          /\ Records[i].Completed
          /\ Records[i].DueOn # <<>>
          /\ StrLess(Records[i].DueOn, Today)
    /\ ret.summary.OpenTasks = 1
    /\ ret.summary.OverdueTasks = 1

\* C4: OverdueTasks is exactly the number of records that are not completed,
\* have a due date, and whose due date sorts strictly before today's date; an
\* open record due today or without a due date is not counted.
C4_OverdueIsExactCount ==
    SummaryReturned =>
        ret.summary.OverdueTasks =
            Cardinality({i \in 1..Len(Records) :
                           /\ ~Records[i].Completed
                           /\ Records[i].DueOn # <<>>
                           /\ StrLess(Records[i].DueOn, Today)})

C4_Witness ==
    /\ SummaryReturned
    /\ Len(Records) = 2
    /\ ~Records[1].Completed /\ Records[1].DueOn = Today
    /\ ~Records[2].Completed /\ Records[2].DueOn = <<>>
    /\ ret.summary.OpenTasks = 2
    /\ ret.summary.OverdueTasks = 0

(***************************************************************************)
(* Properties of the transport operations, checked under SpecTransport.    *)
(***************************************************************************)
\* the operation returned after the response was read completely
Answered(op) ==
    pc = "done" /\ call.op = op /\ resp # NoResp /\ resp.readOK

APIErrorText(status, detail) == "API error (" \o ToString(status) \o "): " \o detail

\* C5: doRequest returns an error and no body for a response with status >= 400,
\* and the body unchanged and no error for a response with status < 400 (a
\* response being one whose body was read); it never returns a body with an error.
C5_StatusDecidesResult ==
    /\ Answered("doRequest") =>
          /\ resp.status >= 400 => ret.err # Nil /\ ret.body = Nil
          /\ resp.status < 400 => ret.err = Nil /\ ret.body = resp.body
    /\ pc = "done" /\ call.op = "doRequest" => ret.err = Nil \/ ret.body = Nil

C5_Witness ==
    /\ Answered("doRequest")
    /\ resp.status = 400
    /\ ret.err # Nil
    /\ ret.body = Nil

\* C6: for a response with status >= 400 whose body is an error envelope with
\* at least one entry, the error of doRequest and of doMultipartRequest is the
\* status code with the first entry's message: not a later entry's, not the body.
C6_FirstEnvelopeMessage ==
    \A op \in {"doRequest", "doMultipartRequest"} :
        (/\ Answered(op)
         /\ resp.status >= 400
         /\ resp.body.kind = "envelope"
         /\ Len(resp.body.errors) >= 1)
        => /\ ret.err # Nil
           /\ ret.err.text = APIErrorText(resp.status, resp.body.errors[1])
           /\ ret.err.text # APIErrorText(resp.status, Raw(resp.body))
           /\ \A i \in 2..Len(resp.body.errors) :
                 resp.body.errors[i] # resp.body.errors[1] =>
                     ret.err.text # APIErrorText(resp.status, resp.body.errors[i])

C6_Witness ==
    /\ Answered("doMultipartRequest")
    /\ resp.status = 404
    /\ resp.body = Envelope(<<"Not Found", "Forbidden">>)
    /\ ret.err.text = "API error (404): Not Found"

\* C7: for a response with status >= 400 whose body is empty, is not an error
\* envelope, or is an envelope with no entries, the error is the status code
\* with the bytes of the body as they came.
C7_RawBodyOtherwise ==
    \A op \in {"doRequest", "doMultipartRequest"} :
        (/\ Answered(op)
         /\ resp.status >= 400
         /\ ~(resp.body.kind = "envelope" /\ Len(resp.body.errors) >= 1))
        => /\ ret.err # Nil
           /\ ret.err.text = APIErrorText(resp.status, Raw(resp.body))

C7_Witness ==
    /\ Answered("doRequest")
    /\ resp.status = 500
    /\ resp.body = TextBody
    /\ ret.err.text = "API error (500): Bad Gateway"

\* C8: every request doRequest sends has the bearer token in Authorization and
\* Accept: application/json, and has Content-Type: application/json exactly
\* when the call has a body.
C8_RequestHeaders ==
    call.op = "doRequest" =>
        \A i \in 1..Len(wire) :
            /\ "Authorization" \in DOMAIN wire[i].header
            /\ wire[i].header["Authorization"] = "Bearer " \o call.c.token
            /\ "Accept" \in DOMAIN wire[i].header
            /\ wire[i].header["Accept"] = "application/json"
            /\ "Content-Type" \in DOMAIN wire[i].header <=> call.body # Nil
            /\ call.body # Nil => wire[i].header["Content-Type"] = "application/json"

C8_Witness ==
    /\ call.op = "doRequest"
    /\ call.method = "DELETE"
    /\ call.body = Nil
    /\ Len(wire) = 1
    /\ DOMAIN wire[1].header = {"Authorization", "Accept"}

\* C9: no operation of the transport sends more than one request in an
\* invocation; a request that failed (no response, or status >= 400) ends the
\* operation with the error.
C9_NoRetry ==
    /\ Len(wire) <= 1
    /\ resp # NoResp /\ resp.status >= 400 => pc = "done" /\ ret.err # Nil
    /\ pc = "done" /\ ret.err = Nil => Len(wire) = 1

C9_Witness ==
    /\ pc = "done"
    /\ call.op = "doRequest"
    /\ Len(wire) = 1
    /\ resp = NoResp
    /\ ret.err = Errorf("executing request: connection refused")

\* C10: the request DownloadAttachment sends has no Authorization header and
\* carries the client's token nowhere.
C10_DownloadUnauthenticated ==
    call.op = "DownloadAttachment" =>
        \A i \in 1..Len(wire) :
            /\ wire[i].method = "GET"
            /\ wire[i].url.base = call.attachment.DownloadURL
            /\ "Authorization" \notin DOMAIN wire[i].header
            /\ \A h \in DOMAIN wire[i].header :
                  wire[i].header[h] # "Bearer " \o call.c.token

C10_Witness ==
    /\ call.op = "DownloadAttachment"
    /\ call.c.token = "tokB"
    /\ pc = "done"
    /\ Len(wire) = 1
    /\ ret.err = Nil

\* C11: DownloadAttachment fails on an empty download URL without sending a
\* request, and fails on a response with status >= 400; in both cases the
\* destination is left as it was.  The destination is created or truncated,
\* and the body written to it, only after a response with status < 400.
C11_DownloadTouchesFileOnlyOnSuccess ==
    /\ [](call.op = "DownloadAttachment" =>
            /\ call.attachment.DownloadURL = "" =>
                  /\ wire = <<>>
                  /\ pc = "done" => ret.err = Errorf("attachment has no download URL")
            /\ resp # NoResp /\ resp.status >= 400 => pc = "done" /\ ret.err # Nil
            /\ pc = "done" /\ ret.err = Nil =>
                  /\ resp # NoResp /\ resp.status < 400
                  /\ fs.files[call.destPath].exists
                  /\ fs.files[call.destPath].data = resp.body.data)
    /\ [][call.op = "DownloadAttachment" /\ fs'.files # fs.files =>
            /\ call.attachment.DownloadURL # ""
            /\ resp # NoResp /\ resp.status < 400
            /\ pc \in {"create", "copy"}]_vars

C11_Witness ==
    /\ call.op = "DownloadAttachment"
    /\ pc = "done"
    /\ resp # NoResp /\ resp.status = 404
    /\ ret.err = Errorf("download failed with status 404")
    /\ fs.files[call.destPath] = [exists |-> TRUE, ok |-> TRUE, data |-> <<7>>]

\* C12: when the file to upload cannot be opened, doMultipartRequest returns
\* the error of opening it and sends no request.
C12_UnopenableFileSendsNothing ==
    call.op = "doMultipartRequest" /\ ~(fs.files[call.filePath].exists
                                         /\ fs.files[call.filePath].ok) =>
        /\ wire = <<>>
        /\ pc \in {"ready", "done"}
        /\ pc = "done" => ret = Return(Nil, Errorf("opening file: no such file or directory"))

C12_Witness ==
    /\ call.op = "doMultipartRequest"
    /\ ~fs.files[call.filePath].exists
    /\ pc = "done"
    /\ wire = <<>>
    /\ ret.err = Errorf("opening file: no such file or directory")

(***************************************************************************)
(* Properties of the query construction, checked under SpecQuery.          *)
(***************************************************************************)
\* ListTasks was called, directly or by the tasks list command
ListOp == call.op \in {"ListTasks", "TasksListCmd.Run"}

\* the query of the request sent
Query == wire[1].url.query

\* the step in which ListTasks builds and sends its request
ListTasksSends == ListOp /\ pc = "ready" /\ pc' # "ready"

\* the dates the clock showed during a step, moved by a number of days
DatesDuring(days) == {Format(AddDate(TimeNow(t), 0, 0, days)) : t \in now..now'}

RangeKeys == {"due_on.before", "due_on.after"}

\* C13: projects.any, assignee.any and tags.any are each sent exactly when the
\* option is non-empty, with the option's value; with assignee me, due today
\* and completed tasks not included, the query has assignee.any=me, due_on of
\* today's date and completed=false.
C13_FiltersFollowOptions ==
    ListOp /\ Len(wire) >= 1 =>
        /\ "projects.any" \in DOMAIN Query <=> Opts.Project # ""
        /\ Opts.Project # "" => Query["projects.any"] = Opts.Project
        /\ "assignee.any" \in DOMAIN Query <=> Opts.Assignee # ""
        /\ Opts.Assignee # "" => Query["assignee.any"] = Opts.Assignee
        /\ "tags.any" \in DOMAIN Query <=> Opts.Tag # ""
        /\ Opts.Tag # "" => Query["tags.any"] = Opts.Tag
        /\ Opts.Assignee = "me" /\ Opts.Due = KwToday /\ ~Opts.IncludeCompleted =>
              /\ Query["assignee.any"] = "me"
              /\ "due_on" \in DOMAIN Query
              /\ Query["due_on"] \in {Format(TimeNow(t)) : t \in 0..now}
              /\ "completed" \in DOMAIN Query
              /\ Query["completed"] = "false"

C13_Witness ==
    /\ call.op = "ListTasks"
    /\ Len(wire) = 1
    /\ Opts.Project = "" /\ Opts.Assignee = "me" /\ Opts.Tag = "T1"
    /\ Opts.Due = KwToday /\ ~Opts.IncludeCompleted
    /\ "projects.any" \notin DOMAIN Query
    /\ Query["assignee.any"] = "me"
    /\ Query["tags.any"] = "T1"
    /\ Query["completed"] = "false"

\* C14: due filter today gives due_on of today's date, tomorrow gives due_on of
\* the day after, and a string that is none of today, tomorrow, week, overdue
\* is sent as due_on unchanged, with no error raised locally; none of these
\* sends due_on.before or due_on.after.
C14_ExactDateFilters ==
    [][ListTasksSends =>
          LET q == wire'[1].url.query IN
          /\ pc' = "awaiting" /\ ret' = NoRet
          /\ Opts.Due = KwToday =>
                "due_on" \in DOMAIN q /\ q["due_on"] \in DatesDuring(0)
          /\ Opts.Due = KwTomorrow =>
                "due_on" \in DOMAIN q /\ q["due_on"] \in DatesDuring(1)
          /\ Opts.Due \notin {<<>>, KwToday, KwTomorrow, KwWeek, KwOverdue} =>
                "due_on" \in DOMAIN q /\ q["due_on"] = Opts.Due
          /\ Opts.Due \notin {KwWeek, KwOverdue} => DOMAIN q \cap RangeKeys = {}
          /\ Opts.Due = <<>> => "due_on" \notin DOMAIN q]_vars

C14_Witness ==
    /\ ListOp
    /\ pc = "awaiting"
    /\ Opts.Due = Malformed
    /\ Query["due_on"] = Malformed
    /\ DOMAIN Query \cap RangeKeys = {}

\* whether a query selects a task due on a date: due_on asks for the date
\* itself, due_on.before for an earlier one and due_on.after for a later one,
\* the two bounds being read alike, both exclusive or both inclusive
Selects(q, due, inclusive) ==
    /\ "due_on" \in DOMAIN q => due = q["due_on"]
    /\ "due_on.before" \in DOMAIN q =>
          \/ StrLess(due, q["due_on.before"])
          \/ inclusive /\ due = q["due_on.before"]
    /\ "due_on.after" \in DOMAIN q =>
          \/ StrLess(q["due_on.after"], due)
          \/ inclusive /\ due = q["due_on.after"]

C16_OverdueIsBeforeToday ==
    [][ListTasksSends /\ Opts.Due = KwOverdue =>
          LET q == wire'[1].url.query IN
          /\ "due_on.before" \in DOMAIN q
          /\ q["due_on.before"] \in DatesDuring(0)
          /\ "due_on.after" \notin DOMAIN q
          /\ "due_on" \notin DOMAIN q]_vars

C16_Witness ==
    /\ ListOp
    /\ pc = "awaiting"
    /\ Opts.Due = KwOverdue
    /\ now = 1
    /\ Query["due_on.before"] = Format(TimeNow(1))
    /\ DOMAIN Query \cap {"due_on", "due_on.after"} = {}

\* C17: completed=false is in the query exactly when IncludeCompleted is false;
\* when completed tasks are asked for, no completed parameter is sent at all.
C17_CompletedOnlyWhenExcluded ==
    ListOp /\ Len(wire) >= 1 =>
        /\ "completed" \in DOMAIN Query <=> ~Opts.IncludeCompleted
        /\ "completed" \in DOMAIN Query => Query["completed"] = "false"

C17_Witness ==
    /\ ListOp
    /\ Len(wire) = 1
    /\ Opts.IncludeCompleted
    /\ "completed" \notin DOMAIN Query

\* the limit the caller gave
CallerLimit ==
    CASE ListOp -> Opts.Limit
      [] call.op \in {"SearchTasks", "ListProjects"} -> call.limit

\* C18: every query of ListTasks, SearchTasks and ListProjects has a limit:
\* the caller's when that is > 0, and 100 when it is 0 or negative; a limit of
\* 0 or less is never sent.
C18_LimitAlwaysSent ==
    call.op \in QueryOps /\ Len(wire) >= 1 =>
        /\ "limit" \in DOMAIN Query
        /\ CallerLimit > 0 => Query["limit"] = ToString(CallerLimit)
        /\ CallerLimit <= 0 => Query["limit"] = "100"
        /\ \A l \in Limits : l <= 0 => Query["limit"] # ToString(l)

C18_Witness ==
    /\ call.op = "SearchTasks"
    /\ call.limit = 0
    /\ Len(wire) = 1
    /\ Query["limit"] = "100"

\* C19: sort_by and sort_ascending=true are in the query of ListTasks exactly
\* when the options have a non-empty sort key; with an empty one, neither is.
C19_SortOnlyWithSortKey ==
    ListOp /\ Len(wire) >= 1 =>
        /\ "sort_by" \in DOMAIN Query <=> Opts.SortBy # ""
        /\ "sort_ascending" \in DOMAIN Query <=> Opts.SortBy # ""
        /\ Opts.SortBy # "" =>
              Query["sort_by"] = Opts.SortBy /\ Query["sort_ascending"] = "true"

C19_Witness ==
    /\ call.op = "ListTasks"
    /\ Len(wire) = 1
    /\ Opts.SortBy = ""
    /\ DOMAIN Query \cap {"sort_by", "sort_ascending"} = {}

\* C20, as claimed: the tasks list command run without a sort flag sends a
\* request with no sort_by and no sort_ascending.
C20_NoSortFlagNoSortParams ==
    call.op = "TasksListCmd.Run" /\ ~call.args.Sort.set /\ Len(wire) >= 1 =>
        DOMAIN Query \cap {"sort_by", "sort_ascending"} = {}

\* C20, amended: the tasks list command run without a sort flag sorts by the
\* command's default key: the request has sort_by=due_date and
\* sort_ascending=true.  Only a sort flag given as the empty string leaves both
\* parameters out.
C20_NoSortFlagSortsByDueDate ==
    call.op = "TasksListCmd.Run" /\ Len(wire) >= 1 =>
        /\ ~call.args.Sort.set =>
              /\ "sort_by" \in DOMAIN Query /\ Query["sort_by"] = "due_date"
              /\ "sort_ascending" \in DOMAIN Query /\ Query["sort_ascending"] = "true"
        /\ DOMAIN Query \cap {"sort_by", "sort_ascending"} = {} <=>
              call.args.Sort.set /\ call.args.Sort.val = ""

C20_Witness ==
    /\ call.op = "TasksListCmd.Run"
    /\ ~call.args.Sort.set
    /\ Len(wire) = 1
    /\ Query["sort_by"] = "due_date"
    /\ Query["sort_ascending"] = "true"

\* C21: every query of ListTasks and every query of SearchTasks carries
\* is_subtask=false, whatever the caller passes.
C21_SubtasksAlwaysExcluded ==
    call.op \in {"ListTasks", "TasksListCmd.Run", "SearchTasks"} /\ Len(wire) >= 1 =>
        "is_subtask" \in DOMAIN Query /\ Query["is_subtask"] = "false"

(***************************************************************************)
(* Properties of GetTaskSummary's one request, checked under SpecSummary.  *)
(***************************************************************************)
\* the same day of the year before; 29 February has none and gives 1 March
YearBefore(t) ==
    IF t.m = 2 /\ t.d = 29 THEN [y |-> t.y - 1, m |-> 3, d |-> 1]
    ELSE [y |-> t.y - 1, m |-> t.m, d |-> t.d]

\* C22: GetTaskSummary sends one search request and no more, with limit=100
\* and with projects.any when a project is given, else with modified_on.after
\* of one year before the current date, never both; a next_page marker in the
\* response brings no further request, and TotalTasks is no more than the
\* number of records of that response.
C22_OneRequestOnePage ==
    call.op = "GetTaskSummary" =>
        /\ Len(wire) <= 1
        /\ pc \in {"awaiting", "done"} =>
              /\ Len(wire) = 1
              /\ wire[1].method = "GET"
              /\ wire[1].url.path = "/workspaces/" \o call.c.workspace \o "/tasks/search"
              /\ "limit" \in DOMAIN Query /\ Query["limit"] = "100"
              /\ call.projectGID # "" =>
                    /\ "projects.any" \in DOMAIN Query
                    /\ Query["projects.any"] = call.projectGID
                    /\ "modified_on.after" \notin DOMAIN Query
              /\ call.projectGID = "" =>
                    /\ "projects.any" \notin DOMAIN Query
                    /\ "modified_on.after" \in DOMAIN Query
                    /\ Query["modified_on.after"] \in
                          {Format(YearBefore(TimeNow(t))) : t \in 0..now}
        /\ SummaryReturned =>
              /\ resp.body.kind = "tasks" => ret.summary.TotalTasks = Len(resp.body.data)
              /\ ret.summary.TotalTasks <= Len(Records)

C22_Witness ==
    /\ SummaryReturned
    /\ call.projectGID = ""
    /\ resp.body.kind = "tasks"
    /\ resp.body.next_page
    /\ Len(resp.body.data) = MaxTasks
    /\ ret.summary.TotalTasks = MaxTasks
    /\ Len(wire) = 1
    /\ now = 1
    /\ Query["modified_on.after"] = Format([y |-> 2023, m |-> 3, d |-> 1])

(***************************************************************************)
(* Properties of the handles of a transfer, checked under SpecTransport.   *)
(***************************************************************************)
\* the handles on local files: the file uploaded, the file downloaded to
LocalHandles == {"file", "out"}

\* C26: an upload's file handle, and a download's destination handle and
\* response body, are closed on every path by which the operation returns:
\* success, I/O error, status >= 400, failed request; and at no moment is more
\* than one local file handle open.
C26_HandlesReleased ==
    call.op \in {"doMultipartRequest", "DownloadAttachment"} =>
        /\ pc = "done" => fs.open = {}
        /\ Cardinality(fs.open \cap LocalHandles) <= 1
        /\ call.op = "doMultipartRequest" => fs.open \subseteq {"file"}
        /\ call.op = "DownloadAttachment" => fs.open \subseteq {"resp.Body", "out"}

C26_Witness ==
    /\ call.op = "doMultipartRequest"
    /\ pc = "done"
    /\ Len(wire) = 1
    /\ ret.err = Errorf("executing request: connection refused")
    /\ fs.open = {}

(***************************************************************************)
(* Properties of the commands, checked under SpecCLI.                      *)
(***************************************************************************)
\* the process has ended
Exited == pc = "exited" /\ ret.kind = "exit"

\* the last request was refused or got no response at all
Refused == resp # NoResp /\ (resp = NetErr \/ resp.status >= 400)

\* C23: an error returned by a core call ends the process with a non-zero
\* exit code, the error itself reported and no result printed; a command
\* that ran without error ends it with exit code zero, and only such a one.
C23_ErrorsReachExit ==
    Exited =>
        /\ ret.core.err # Nil =>
              /\ ret.code # 0
              /\ ret.stderr = ret.core.err
              /\ \A i \in DOMAIN ret.stdout : ret.stdout[i] = Prompt
        /\ Refused => ret.code # 0 /\ ret.core.err # Nil
        /\ ret.stderr = Nil <=> ret.code = 0

C23_Witness ==
    /\ Exited
    /\ call.op = "tasks get" /\ call.args.Comments
    /\ Len(wire) = 2
    /\ ret.core.err = Errorf("API error (404): Not Found")
    /\ ret.code = 1
    /\ ret.stdout = <<>>

\* the command sends its second request
SendsSecond ==
    /\ call.op \in {"tasks get", "attachments download"}
    /\ Len(wire) >= 1
    /\ Len(wire') > Len(wire)

\* the answer to the first request arrives and is no success
FirstFails ==
    /\ pc \in {"GetTask", "GetAttachment"}
    /\ resp' # resp
    /\ resp' = NetErr \/ resp'.status >= 400 \/ resp'.body.kind = "text"

\* C27: tasks get with comments sends the stories request only once the task
\* request has been answered with success, attachments download sends the
\* file GET only once the attachment record has been fetched with success;
\* when the first request fails, no second one is sent.
C27_RequestsInSequence ==
    /\ [](call.op \in {"tasks get", "attachments download"} => Len(wire) <= 2)
    /\ [][SendsSecond =>
            /\ Len(wire) = 1 /\ Len(wire') = 2
            /\ resp = NoResp
            /\ resp' # NetErr /\ resp'.status < 400
            /\ call.op = "tasks get" =>
                  /\ call.args.Comments
                  /\ resp'.body.kind = "task"
                  /\ wire[1].url.path = "/tasks/" \o call.args.TaskGID
                  /\ wire'[2].url.path = "/tasks/" \o call.args.TaskGID \o "/stories"
            /\ call.op = "attachments download" =>
                  /\ resp'.body.kind = "attachment"
                  /\ wire[1].url.path = "/attachments/" \o call.args.AttachmentGID
                  /\ wire'[2].url.base = resp'.body.data.DownloadURL]_vars
    /\ [][FirstFails => wire' = wire /\ pc' = "exited" /\ ret'.code # 0]_vars

C27_Witness ==
    /\ call.op = "tasks get" /\ call.args.Comments
    /\ pc = "GetTaskStories"
    /\ Len(wire) = 2
    /\ resp.status = 200
    /\ wire[2].url.path = "/tasks/T1/stories"

\* a line without the blanks before and after it
RECURSIVE Trimmed(_)
Trimmed(line) ==
    IF line = <<>> THEN line
    ELSE IF Head(line) = " " THEN Trimmed(Tail(line))
    ELSE IF line[Len(line)] = " " THEN Trimmed(SubSeq(line, 1, Len(line) - 1))
    ELSE line

\* C28: attachments delete sends its DELETE request only with --force or when
\* the confirmation line, blanks around it aside, is y or Y and nothing else;
\* on any other line, the empty one too, it sends nothing, prints Cancelled.
\* and ends with success.
C28_DeleteOnlyOnExactYes ==
    call.op = "attachments delete" =>
        LET confirmed == call.args.Force \/ Trimmed(call.stdin) \in {<<"y">>, <<"Y">>} IN
        /\ Len(wire) >= 1 => confirmed
        /\ Len(wire) <= 1
        /\ Exited /\ ~confirmed =>
              /\ wire = <<>>
              /\ ret.stdout = <<Prompt, [text |-> "Cancelled."]>>
              /\ ret.code = 0

\* the dates a line of the output shows
ShownDates(line) ==
    (IF "created" \in DOMAIN line THEN {line.created} ELSE {})
    \cup (IF "timestamp" \in DOMAIN line THEN {line.timestamp} ELSE {})

\* C30: projects list, attachments list and the comments of tasks get never
\* fail at run time on a created_at that is not empty, one shorter than 10
\* characters included, and show no more than its first 10 characters.
C30_TruncationNeverFails ==
    /\ Exited
    /\ call.op \in {"projects list", "attachments list", "tasks get"}
    /\ ret.core.err = Nil
    => /\ ret.code # 2
       /\ \A i \in DOMAIN ret.stdout : \A d \in ShownDates(ret.stdout[i]) : Len(d) <= 10

(***************************************************************************)
(* Properties of config.Load, checked under SpecConfig.                    *)
(***************************************************************************)
\* config.Load has returned
Loaded == pc = "done" /\ call.op = "config.Load"

\* a file that can be loaded and defines the key
Defines(path, key) ==
    /\ fs.files[path].exists /\ fs.files[path].ok
    /\ key \in DOMAIN fs.files[path].vars

\* the files in the order of their priority
FilesByPriority ==
    (IF call.configFile # "" THEN <<call.configFile>> ELSE <<>>)
    \o <<CwdFile>> \o (IF call.home THEN <<HomeFile>> ELSE <<>>)

\* the value of a key from the source of highest priority that defines it:
\* the environment, then the files in their order; "" when none does
ByPriority(key) ==
    IF call.env[key].set THEN call.env[key].val
    ELSE LET F == FilesByPriority
             D == {i \in DOMAIN F : Defines(F[i], key)}
         IN  IF D = {} THEN ""
             ELSE fs.files[F[CHOOSE i \in D : \A j \in D : i <= j]].vars[key]

\* C24, as claimed: each of ASANA_TOKEN and ASANA_WORKSPACE has the value of
\* the source of highest priority that defines it, in the order environment,
\* --config file, ./.env, ~/.config/asana-cli/.env; and a variable set in the
\* environment is never replaced by a file's value.  Stated for the loads in
\* which the --config file, when given, is there and defines the token.
C24_HighestPrioritySourcePerKey ==
    Loaded =>
        /\ \A k \in Keys : call.env[k].set => fs.env[k] = call.env[k]
        /\ /\ call.configFile # "" => Defines(call.configFile, "ASANA_TOKEN")
           /\ \A k \in Keys : ByPriority(k) # ""
           => /\ ret.err = Nil
              /\ ret.cfg = [Token |-> ByPriority("ASANA_TOKEN"),
                            Workspace |-> ByPriority("ASANA_WORKSPACE")]

\* the one file config.Load reads: the --config file, else the first default
\* location that exists; "" when there is none
TheFile ==
    IF call.configFile # "" THEN call.configFile
    ELSE IF fs.files[CwdFile].exists THEN CwdFile
    ELSE IF call.home /\ fs.files[HomeFile].exists THEN HomeFile
    ELSE ""

\* the value of a key: the environment's when set there, else the one file's
EnvThenTheFile(key) ==
    IF call.env[key].set THEN call.env[key].val
    ELSE IF TheFile # "" /\ Defines(TheFile, key) THEN fs.files[TheFile].vars[key]
    ELSE ""

\* C24, amended: a variable set in the environment is never replaced by a
\* file's value; a variable not set there takes its value from the one file
\* that is read, the --config file if given, else the first of ./.env and
\* ~/.config/asana-cli/.env that exists, and from no file of lower priority:
\* a key that file does not define is reported as not set.  A --config file
\* that cannot be loaded fails the load whatever the environment holds.
C24_EnvironmentThenOneFile ==
    Loaded =>
        /\ \A k \in Keys : call.env[k].set => fs.env[k] = call.env[k]
        /\ IF call.configFile # "" /\ ~(fs.files[call.configFile].exists
                                         /\ fs.files[call.configFile].ok)
           THEN ret.cfg = Nil /\ ret.err # Nil
           ELSE IF EnvThenTheFile("ASANA_TOKEN") = ""
           THEN ret = [cfg |-> Nil, err |-> Errorf("ASANA_TOKEN not set.")]
           ELSE IF EnvThenTheFile("ASANA_WORKSPACE") = ""
           THEN ret = [cfg |-> Nil, err |-> Errorf("ASANA_WORKSPACE not set.")]
           ELSE ret = [cfg |-> [Token |-> EnvThenTheFile("ASANA_TOKEN"),
                                Workspace |-> EnvThenTheFile("ASANA_WORKSPACE")],
                       err |-> Nil]

C24_Witness ==
    /\ Loaded
    /\ call.configFile = "" /\ call.home
    /\ call.env["ASANA_TOKEN"] = EnvVar("env")
    /\ call.env["ASANA_WORKSPACE"] = Unset
    /\ DOMAIN fs.files[CwdFile].vars = Keys
    /\ DOMAIN fs.files[HomeFile].vars = Keys
    /\ ret.err = Nil
    /\ ret.cfg = [Token |-> "env", Workspace |-> CwdFile]

\* the paths of the calls of one kind in the log
RECURSIVE PathsOf(_, _)
PathsOf(log, op) ==
    IF log = <<>> THEN <<>>
    ELSE (IF Head(log).op = op THEN <<Head(log).path>> ELSE <<>>) \o PathsOf(Tail(log), op)

\* C25: without a --config file at most one default file is loaded, the first
\* of ./.env and ~/.config/asana-cli/.env that exists, and no location after
\* it is read or even looked for; with a --config file that file alone is
\* loaded, and when it cannot be loaded config.Load fails.
C25_FirstMatchWins ==
    call.op = "config.Load" /\ pc \in {"loaded", "done"} =>
        LET loads == PathsOf(fs.log, "Load")
            stats == PathsOf(fs.log, "Stat")
        IN  /\ Len(loads) <= 1
            /\ call.configFile # "" =>
                  /\ loads = <<call.configFile>>
                  /\ stats = <<>>
                  /\ ~(fs.files[call.configFile].exists /\ fs.files[call.configFile].ok) =>
                        pc = "done" /\ ret.cfg = Nil /\ ret.err # Nil
            /\ call.configFile = "" =>
                  /\ CustomFile \notin {stats[i] : i \in DOMAIN stats}
                  /\ fs.files[CwdFile].exists => loads = <<CwdFile>> /\ stats = <<CwdFile>>
                  /\ ~fs.files[CwdFile].exists /\ call.home /\ fs.files[HomeFile].exists =>
                        loads = <<HomeFile>> /\ stats = <<CwdFile, HomeFile>>
                  /\ ~fs.files[CwdFile].exists /\ ~(call.home /\ fs.files[HomeFile].exists) =>
                        loads = <<>>
                  /\ ~call.home => HomeFile \notin {stats[i] : i \in DOMAIN stats}

C25_Witness ==
    /\ Loaded
    /\ call.configFile = "" /\ call.home
    /\ call.env = [k \in Keys |-> Unset]
    /\ fs.files[CwdFile].exists /\ DOMAIN fs.files[CwdFile].vars = {"ASANA_TOKEN"}
    /\ fs.files[HomeFile].exists /\ DOMAIN fs.files[HomeFile].vars = Keys
    /\ fs.log = <<[op |-> "Stat", path |-> CwdFile], [op |-> "Load", path |-> CwdFile]>>
    /\ ret.err = Errorf("ASANA_WORKSPACE not set.")

(***************************************************************************)
(* The dates of one ListTasks call, checked under SpecQuery.               *)
(***************************************************************************)
\* the days the clock may show
Days == {TimeNow(t) : t \in 0..MaxDay}

\* C29: in one ListTasks call with due filter week the upper bound sent is
\* the day 7 days after the lower bound sent, and with tomorrow the date sent
\* is the day after a date the clock showed during the call, also when the
\* clock passes midnight while the query is built.
C29_BoundsFromOneNow ==
    [][ListTasksSends =>
          LET q == wire'[1].url.query IN
          /\ Opts.Due = KwWeek =>
                \E day \in Days :
                    /\ q["due_on.after"] = Format(day)
                    /\ q["due_on.before"] = Format(AddDate(day, 0, 0, 7))
          /\ Opts.Due = KwTomorrow => q["due_on"] \in DatesDuring(1)]_vars

====
